---- MODULE Spec2Model ----
(***************************************************************************)
(* Neural Hive: the Session Supervisor (electron/agent-manager.ts), the    *)
(* Output Batcher and Health Watchdog (electron/health-monitor.ts), the    *)
(* tag registry (electron/broadcast-manager.ts) and the consumer store     *)
(* (stores/agentStore.ts), as one state machine.                           *)
(*                                                                         *)
(* A JavaScript string is a sequence of chunks; a chunk is what one onData *)
(* callback of the pseudo-terminal carries.  Chunks are numbered per       *)
(* session in the order the process emits them, so that loss, duplication  *)
(* and reordering are visible.  A JavaScript Map whose iteration order the *)
(* code uses is a sequence of <<key, value>> entries in insertion order.   *)
(***************************************************************************)
EXTENDS Integers, Sequences, FiniteSets, TLC

VARIABLES
    \* ---- AgentManager (electron/agent-manager.ts)
    ptyProcesses,         \* Map<string, IPty>: ids in insertion order
    agentMetadata,        \* Map<string, AgentMetadata>: its key set
    pausedAgents,         \* Map<string, AgentStatus>
    pausedOutputBuffers,  \* Map<string, string>
    mainWindow,           \* TRUE iff a live BrowserWindow is attached
    \* ---- OutputThrottler (electron/health-monitor.ts)
    buffer,               \* Map<string, string[]>, insertion order
    isRunning,            \* TRUE iff the flush interval timer is set
    \* ---- HealthMonitor
    lastActivity,         \* Map<string, number>, insertion order
    agentStatuses,        \* Map<string, AgentStatus>
    \* ---- BroadcastManager, ResourceMonitor
    agentTags,            \* Map<string, Set<string>>
    trackedPids,          \* Map<string, number>: its key set
    \* ---- ConfigLoader (electron/config-loader.ts)
    parsers,              \* Map<string, ParserConfig>: per CLI type, the
                          \* pattern kinds that have a compiled regex
    stateMapping,         \* Record<PatternType, AgentStatus>
    \* ---- environment
    proc,                 \* per id: the pseudo-terminal process
    emittedChunks,        \* per id: how many chunks the process has emitted
    now,                  \* Date.now()
    \* ---- consumer store (stores/agentStore.ts)
    agents,               \* Map<string, AgentSession>
    pausedPreviousStatus, \* Map<string, AgentStatus>
    agentCounter,         \* counter for naming agents
    calls,                \* store operations awaiting the main process
    \* ---- observation of the last step
    ret,                  \* the operation that ran and what it returned
    emitted,              \* webContents.send calls of the last step, in order
    sinkCalls,            \* flushCallback invocations of the last step
    written,              \* ptyProcess.write calls of the last step
    stallCalls,           \* stall callback invocations of the last step
    delivered,            \* per id: every chunk handed to the sink so far
    pauseCycle            \* history: per id, the status the store showed when
                          \* it sent its last pauseAgent, kept until output
                          \* or a stall reaches the store, or another call
                          \* on the id is sent before the last one returned

mgrVars == <<ptyProcesses, agentMetadata, pausedAgents, pausedOutputBuffers, mainWindow>>
monVars == <<buffer, isRunning, lastActivity, agentStatuses, agentTags, trackedPids>>
cfgVars == <<parsers, stateMapping>>
envVars == <<proc, emittedChunks, now>>
storeVars == <<agents, pausedPreviousStatus, agentCounter, calls>>
obsVars == <<ret, emitted, sinkCalls, written, stallCalls, delivered, pauseCycle>>
vars == <<mgrVars, monVars, cfgVars, envVars, storeVars, obsVars>>

----------------------------------------------------------------------------
\* Bounds of the model

AgentIds == {"a1", "a2"}
\* the ids randomUUID() can return; any other id is never a session's id
SpawnIds == {"a1"}
Tags == {"t1"}
Commands == {"cmd"}
ExitCodes == {0, 1}
MaxChunks == 3
MaxTime == 2
\* the store together with the main process: one session, classified output
StoreAgentIds == {"a1"}
LocalIdOf == <<"L1">>
ChunkTexts == {{}, {"Thinking"}, {"ToolUse"}, {"Error", "Thinking"}}
MaxStoreChunks == 2
MaxCalls == 2
\* the store together with the main process, its clock and the Watchdog timer
MaxStallChunks == 1
\* the store sending commands: how long a log a rejected call is added to
MaxSystemLogs == 2
LocalIds == {LocalIdOf[i] : i \in 1..Len(LocalIdOf)}
\* the Supervisor with several sessions: the ids randomUUID() returns, in
\* the order it returns them
FleetOrder == <<"a1", "a2", "a3">>
FleetIds == {FleetOrder[i] : i \in 1..Len(FleetOrder)}
AllIds == AgentIds \cup LocalIds \cup FleetIds

----------------------------------------------------------------------------
\* src/types/shared: AgentStatus

AgentStatus == {"IDLE", "THINKING", "WORKING", "ERROR", "WAITING_USER", "PAUSED", "STALLED"}

\* JavaScript's undefined / null
Undefined == "undefined"

----------------------------------------------------------------------------
\* JavaScript Map with insertion order: a sequence of <<key, value>>

MapKeys(m) == [i \in 1..Len(m) |-> m[i][1]]

MapKeySet(m) == {m[i][1] : i \in 1..Len(m)}

MapHas(m, k) == k \in MapKeySet(m)

MapGet(m, k) == IF MapHas(m, k) THEN m[CHOOSE i \in 1..Len(m) : m[i][1] = k][2] ELSE Undefined

MapSet(m, k, v) ==
    IF MapHas(m, k)
    THEN [i \in 1..Len(m) |-> IF m[i][1] = k THEN <<k, v>> ELSE m[i]]
    ELSE Append(m, <<k, v>>)

MapDelete(m, k) == SelectSeq(m, LAMBDA e : e[1] # k)

\* A Map whose iteration order the code never uses: a function on its keys
FnSet(f, k, v) == [x \in DOMAIN f \cup {k} |-> IF x = k THEN v ELSE f[x]]

FnDelete(f, k) == [x \in DOMAIN f \ {k} |-> f[x]]

FnGet(f, k) == IF k \in DOMAIN f THEN f[k] ELSE Undefined

EmptyFn == [x \in {} |-> Undefined]

\* Array.prototype.join(''): the concatenation of the strings of an array
RECURSIVE Join(_)
Join(chunks) == IF chunks = <<>> THEN <<>> ELSE Head(chunks) \o Join(Tail(chunks))

----------------------------------------------------------------------------
\* The main-process state a handler reads and writes, as one record.  The
\* fields emitted, sinkCalls, written and stallCalls collect what the handler
\* sends, delivers, writes and reports; they start empty at every step.
\* sinkThrows is the set of ids for which the flush callback throws, and
\* thrown says whether an exception is propagating.

MainState ==
    [ptyProcesses |-> ptyProcesses, agentMetadata |-> agentMetadata,
     pausedAgents |-> pausedAgents, pausedOutputBuffers |-> pausedOutputBuffers,
     mainWindow |-> mainWindow, buffer |-> buffer, isRunning |-> isRunning,
     lastActivity |-> lastActivity, agentStatuses |-> agentStatuses,
     agentTags |-> agentTags, trackedPids |-> trackedPids, now |-> now,
     emitted |-> <<>>, sinkCalls |-> <<>>, written |-> <<>>, stallCalls |-> <<>>,
     sinkThrows |-> {}, thrown |-> FALSE]

\* this.mainWindow.webContents.send(channel, payload), guarded by
\* `this.mainWindow && !this.mainWindow.isDestroyed()`
send(s, event) ==
    IF s.mainWindow THEN [s EXCEPT !.emitted = Append(@, event)] ELSE s

\* ---- OutputThrottler -----------------------------------------------------

\* The FlushCallback the AgentManager constructor installs
flushCallback(s, agentId, data) ==
    send([s EXCEPT !.sinkCalls = Append(@, [agentId |-> agentId, data |-> data])],
         [type |-> "agent:update", agentId |-> agentId, data |-> data])

\* push with Array.prototype.unshift in place of push
push_unshift(s, agentId, data) ==
    LET b == IF ~MapHas(s.buffer, agentId) THEN MapSet(s.buffer, agentId, <<>>) ELSE s.buffer
    IN  [s EXCEPT !.buffer = MapSet(b, agentId, <<data>> \o MapGet(b, agentId))]

push(s, agentId, data) ==
    LET b == IF ~MapHas(s.buffer, agentId) THEN MapSet(s.buffer, agentId, <<>>) ELSE s.buffer
    IN  [s EXCEPT !.buffer = MapSet(b, agentId, Append(MapGet(b, agentId), data))]

\* this.flushCallback(agentId, combinedData): the callback runs, and throws
\* for the ids of sinkThrows
invokeFlushCallback(s, agentId, data) ==
    LET s1 == flushCallback(s, agentId, data)
    IN  IF agentId \in s.sinkThrows THEN [s1 EXCEPT !.thrown = TRUE] ELSE s1

\* a catch block that throws the error again
tryCatch_rethrows(s) == s

\* try { ... } catch (err) { console.error(...) }: the error goes no further
tryCatch(s) == [s EXCEPT !.thrown = FALSE]

\* flushAgent that leaves the chunks in the buffer
flushAgent_keepsChunks(s, agentId) ==
    LET chunks == MapGet(s.buffer, agentId)
    IN  IF MapHas(s.buffer, agentId) /\ Len(chunks) > 0
        THEN tryCatch(invokeFlushCallback(s, agentId, Join(chunks)))
        ELSE s

flushAgent(s, agentId) ==
    LET chunks == MapGet(s.buffer, agentId)
    IN  IF MapHas(s.buffer, agentId) /\ Len(chunks) > 0
        THEN tryCatch(invokeFlushCallback([s EXCEPT !.buffer = MapSet(@, agentId, <<>>)],
                                          agentId, Join(chunks)))
        ELSE s

\* flush(): the loop over the buffer's entries, from entry i on; an exception
\* that propagates ends the loop
RECURSIVE flushFrom(_, _)
flushFrom(s, i) ==
    IF i > Len(s.buffer) \/ s.thrown THEN s
    ELSE LET agentId == s.buffer[i][1]
             chunks == s.buffer[i][2]
         IN  IF Len(chunks) > 0
             THEN flushFrom(tryCatch(invokeFlushCallback(
                                [s EXCEPT !.buffer = MapSet(@, agentId, <<>>)],
                                agentId, Join(chunks))), i + 1)
             ELSE flushFrom(s, i + 1)

\* flush that passes over the first entry of the buffer
flush_skipsFirst(s) == flushFrom(s, 2)

flush(s) == flushFrom(s, 1)

\* removeAgent that flushes the agent's chunks before deleting its entry
throttlerRemoveAgent_flushes(s, agentId) ==
    [flushAgent(s, agentId) EXCEPT !.buffer = MapDelete(@, agentId)]

throttlerRemoveAgent(s, agentId) == [s EXCEPT !.buffer = MapDelete(@, agentId)]

\* stop without the final flush
throttlerStop_noFinalFlush(s) == [s EXCEPT !.isRunning = FALSE, !.buffer = <<>>]

\* OutputThrottler.stop
throttlerStop(s) ==
    LET s1 == [s EXCEPT !.isRunning = FALSE]
        s2 == flush(s1)
    IN  IF s2.thrown THEN s2 ELSE [s2 EXCEPT !.buffer = <<>>]

getBufferSize(s, agentId) ==
    LET chunks == MapGet(s.buffer, agentId)
    IN  IF MapHas(s.buffer, agentId) THEN Len(Join(chunks)) ELSE 0

\* ---- HealthMonitor -------------------------------------------------------

\* config.stallTimeout, in ticks of the clock
stallTimeout == 1

recordActivity(s, agentId, status) ==
    LET s1 == [s EXCEPT !.lastActivity = MapSet(@, agentId, s.now)]
    IN  IF status # Undefined
        THEN [s1 EXCEPT !.agentStatuses = FnSet(@, agentId, status)]
        ELSE s1

\* updateStatus that never resets the activity timestamp
updateStatus_noReset(s, agentId, status) ==
    [s EXCEPT !.agentStatuses = FnSet(@, agentId, status)]

updateStatus(s, agentId, status) ==
    LET s1 == [s EXCEPT !.agentStatuses = FnSet(@, agentId, status)]
    IN  IF status # "WORKING" /\ status # "THINKING"
        THEN [s1 EXCEPT !.lastActivity = MapSet(@, agentId, s.now)]
        ELSE s1

untrack(s, agentId) ==
    [s EXCEPT !.lastActivity = MapDelete(@, agentId),
              !.agentStatuses = FnDelete(@, agentId)]

\* getHealth: <<>> is null, <<h>> is the HealthStatus h
getHealth(s, agentId) ==
    IF ~MapHas(s.lastActivity, agentId) THEN <<>>
    ELSE LET last == MapGet(s.lastActivity, agentId)
             duration == s.now - last
             isStalled == duration > stallTimeout
         IN  << [agentId |-> agentId, lastActivity |-> last, isStalled |-> isStalled,
                 stallDuration |-> IF isStalled THEN duration ELSE 0] >>

\* ---- BroadcastManager, ResourceMonitor -----------------------------------

setTags(s, agentId, tags) == [s EXCEPT !.agentTags = FnSet(@, agentId, tags)]

getTags(s, agentId) == IF agentId \in DOMAIN s.agentTags THEN s.agentTags[agentId] ELSE {}

broadcastRemoveAgent(s, agentId) == [s EXCEPT !.agentTags = FnDelete(@, agentId)]

\* A command, a template or a value is a string: here a sequence of pieces of
\* text.  Ph(name) is the text {name}; Lit(v) is any other piece of text, and
\* the pieces "$$", "$&", "$`" and "$'" are the replacement patterns of
\* String.prototype.replace.
Lit(v) == [k |-> "lit", v |-> v]

Ph(name) == [k |-> "ph", v |-> name]

\* GetSubstitution of String.prototype.replace for a string replacement value:
\* what one match of the placeholder is replaced with
RECURSIVE GetSubstitution(_, _, _, _)
GetSubstitution(value, matched, before, after) ==
    IF value = <<>> THEN <<>>
    ELSE LET t == Head(value)
             e == IF t = Lit("$$") THEN <<Lit("$")>>
                  ELSE IF t = Lit("$&") THEN <<matched>>
                  ELSE IF t = Lit("$`") THEN before
                  ELSE IF t = Lit("$'") THEN after
                  ELSE <<t>>
         IN  e \o GetSubstitution(Tail(value), matched, before, after)

\* command.replace(new RegExp(`\\{${escapeRegex(varName)}\\}`, 'g'), value),
\* from piece i of the command on
RECURSIVE replaceFrom(_, _, _, _)
replaceFrom(command, varName, value, i) ==
    IF i > Len(command) THEN <<>>
    ELSE (IF command[i] = Ph(varName)
          THEN GetSubstitution(value, command[i], SubSeq(command, 1, i - 1),
                               SubSeq(command, i + 1, Len(command)))
          ELSE <<command[i]>>)
         \o replaceFrom(command, varName, value, i + 1)

\* values[index] || '': no cyclic reuse of the values
valueAt_noCycle(values, index) ==
    IF index < Len(values) THEN values[index + 1] ELSE <<>>

\* values[index % values.length] || '': index counts from 0, and '' is <<>>
valueAt(values, index) ==
    IF Len(values) = 0 THEN <<>> ELSE values[(index % Len(values)) + 1]

\* the loop over Object.entries(options.variables), from entry j on
RECURSIVE injectFrom(_, _, _, _)
injectFrom(command, variables, index, j) ==
    IF j > Len(variables) THEN command
    ELSE LET varName == variables[j][1]
             value == valueAt(variables[j][2], index)
         IN  injectFrom(replaceFrom(command, varName, value, 1), variables, index, j + 1)

\* the filter of prepareBroadcast that targets every id the registry knows
selectTargets_anyRegistered(s, options, allAgentIds) ==
    IF options.tags # <<>> /\ options.tags[1] # {}
    THEN SelectSeq(allAgentIds, LAMBDA agentId : agentId \in DOMAIN s.agentTags)
    ELSE allAgentIds

\* prepareBroadcast, lines 188-201: options.tags is <<>> when omitted and
\* <<tags>> otherwise
selectTargets(s, options, allAgentIds) ==
    IF options.tags # <<>> /\ options.tags[1] # {}
    THEN SelectSeq(allAgentIds,
                   LAMBDA agentId : /\ agentId \in DOMAIN s.agentTags
                                    /\ s.agentTags[agentId] \cap options.tags[1] # {})
    ELSE allAgentIds

\* targetAgents.forEach, from index on (index counts from 0)
RECURSIVE prepareFrom(_, _, _, _)
prepareFrom(result, options, targetAgents, index) ==
    IF index >= Len(targetAgents) THEN result
    ELSE LET agentId == targetAgents[index + 1]
             command == IF options.variables # <<>>
                        THEN injectFrom(options.template, options.variables[1], index, 1)
                        ELSE options.template
         IN  prepareFrom(MapSet(result, agentId, command), options, targetAgents, index + 1)

\* BroadcastManager.prepareBroadcast: the Map it returns; options.variables
\* is <<>> when omitted and <<entries>> otherwise, entries being the
\* <<varName, values>> of Object.entries
prepareBroadcast(s, options, allAgentIds) ==
    prepareFrom(<<>>, options, selectTargets(s, options, allAgentIds), 0)

resourceTrack(s, agentId) == [s EXCEPT !.trackedPids = @ \cup {agentId}]

resourceUntrack(s, agentId) == [s EXCEPT !.trackedPids = @ \ {agentId}]

----------------------------------------------------------------------------
\* AgentManager (electron/agent-manager.ts)

\* ptyProcess.onData
\* onData without the ptyProcesses.has(agentId) guard
onData_noLiveCheck(s, agentId, data) ==
    IF agentId \in DOMAIN s.pausedAgents
    THEN LET currentBuffer == IF agentId \in DOMAIN s.pausedOutputBuffers
                              THEN s.pausedOutputBuffers[agentId] ELSE <<>>
         IN  [s EXCEPT !.pausedOutputBuffers = FnSet(@, agentId, currentBuffer \o data)]
    ELSE recordActivity(push(s, agentId, data), agentId, Undefined)

onData(s, agentId, data) ==
    IF ~MapHas(s.ptyProcesses, agentId) THEN s
    ELSE IF agentId \in DOMAIN s.pausedAgents
    THEN LET currentBuffer == IF agentId \in DOMAIN s.pausedOutputBuffers
                              THEN s.pausedOutputBuffers[agentId] ELSE <<>>
         IN  [s EXCEPT !.pausedOutputBuffers = FnSet(@, agentId, currentBuffer \o data)]
    ELSE recordActivity(push(s, agentId, data), agentId, Undefined)

\* onExit without this.resourceMonitor.untrack(agentId)
onExit_keepsTracked(s, agentId, exitCode) ==
    LET s1 == flushAgent(s, agentId)
        s2 == throttlerRemoveAgent(s1, agentId)
        s4 == untrack(s2, agentId)
        s5 == [s4 EXCEPT !.ptyProcesses = MapDelete(@, agentId),
                         !.agentMetadata = @ \ {agentId}]
        s6 == broadcastRemoveAgent(s5, agentId)
        s7 == [s6 EXCEPT !.pausedAgents = FnDelete(@, agentId),
                         !.pausedOutputBuffers = FnDelete(@, agentId)]
    IN  send(s7, [type |-> "agent:exit", agentId |-> agentId, exitCode |-> exitCode])

\* onExit that notifies the consumer before it cleans up
onExit_emitsFirst(s, agentId, exitCode) ==
    LET s0 == send(s, [type |-> "agent:exit", agentId |-> agentId, exitCode |-> exitCode])
        s1 == flushAgent(s0, agentId)
        s2 == throttlerRemoveAgent(s1, agentId)
        s3 == resourceUntrack(s2, agentId)
        s4 == untrack(s3, agentId)
        s5 == [s4 EXCEPT !.ptyProcesses = MapDelete(@, agentId),
                         !.agentMetadata = @ \ {agentId}]
        s6 == broadcastRemoveAgent(s5, agentId)
    IN  [s6 EXCEPT !.pausedAgents = FnDelete(@, agentId),
                   !.pausedOutputBuffers = FnDelete(@, agentId)]

\* ptyProcess.onExit
onExit(s, agentId, exitCode) ==
    LET s1 == flushAgent(s, agentId)
        s2 == throttlerRemoveAgent(s1, agentId)
        s3 == resourceUntrack(s2, agentId)
        s4 == untrack(s3, agentId)
        s5 == [s4 EXCEPT !.ptyProcesses = MapDelete(@, agentId),
                         !.agentMetadata = @ \ {agentId}]
        s6 == broadcastRemoveAgent(s5, agentId)
        s7 == [s6 EXCEPT !.pausedAgents = FnDelete(@, agentId),
                         !.pausedOutputBuffers = FnDelete(@, agentId)]
    IN  send(s7, [type |-> "agent:exit", agentId |-> agentId, exitCode |-> exitCode])

\* spawnAgent after pty.spawn has returned: the registrations of lines 128-138
spawnRegister(s, agentId) ==
    LET s1 == [s EXCEPT !.ptyProcesses = MapSet(@, agentId, "pty"),
                        !.agentMetadata = @ \cup {agentId}]
        s2 == resourceTrack(s1, agentId)
    IN  recordActivity(s2, agentId, "IDLE")

\* cleanupAgent without this.pausedOutputBuffers.delete(agentId)
cleanupAgent_keepsPauseBuffer(s, agentId) ==
    LET s1 == throttlerRemoveAgent(s, agentId)
        s2 == resourceUntrack(s1, agentId)
        s3 == untrack(s2, agentId)
        s4 == [s3 EXCEPT !.pausedAgents = FnDelete(@, agentId),
                         !.ptyProcesses = MapDelete(@, agentId),
                         !.agentMetadata = @ \ {agentId}]
    IN  broadcastRemoveAgent(s4, agentId)

cleanupAgent(s, agentId) ==
    LET s1 == throttlerRemoveAgent(s, agentId)
        s2 == resourceUntrack(s1, agentId)
        s3 == untrack(s2, agentId)
        s4 == [s3 EXCEPT !.pausedAgents = FnDelete(@, agentId),
                         !.ptyProcesses = MapDelete(@, agentId),
                         !.agentMetadata = @ \ {agentId}]
        s5 == broadcastRemoveAgent(s4, agentId)
    IN  [s5 EXCEPT !.pausedOutputBuffers = FnDelete(@, agentId)]

\* Each operation returns [s, result]: the state it leaves and what it returns.
\* `throws` says whether the pseudo-terminal call of the operation throws.

Ok == [success |-> TRUE, error |-> Undefined]

Fail(error) == [success |-> FALSE, error |-> error]

resizeTerminal(s, agentId, throws) ==
    IF ~MapHas(s.ptyProcesses, agentId) THEN [s |-> s, result |-> Fail("not found")]
    ELSE IF throws THEN [s |-> s, result |-> Fail("threw")]
    ELSE [s |-> s, result |-> Ok]

\* sendCommand without the pausedAgents check
sendCommand_noPauseCheck(s, agentId, command, throws) ==
    IF ~MapHas(s.ptyProcesses, agentId) THEN [s |-> s, result |-> Fail("not found")]
    ELSE IF throws THEN [s |-> s, result |-> Fail("threw")]
    ELSE [s |-> [s EXCEPT !.written = Append(@, [agentId |-> agentId, data |-> command])],
          result |-> Ok]

sendCommand(s, agentId, command, throws) ==
    IF agentId \in DOMAIN s.pausedAgents THEN [s |-> s, result |-> Fail("Agent is paused")]
    ELSE IF ~MapHas(s.ptyProcesses, agentId) THEN [s |-> s, result |-> Fail("not found")]
    ELSE IF throws THEN [s |-> s, result |-> Fail("threw")]
    ELSE [s |-> [s EXCEPT !.written = Append(@, [agentId |-> agentId, data |-> command])],
          result |-> Ok]

killAgent(s, agentId, throws) ==
    IF ~MapHas(s.ptyProcesses, agentId) THEN [s |-> s, result |-> Fail("not found")]
    ELSE IF throws THEN [s |-> s, result |-> Fail("threw")]
    ELSE [s |-> cleanupAgent(s, agentId), result |-> Ok]

\* pauseAgent without the lookup of the agent in ptyProcesses
pauseAgent_noLookup(s, agentId) ==
    IF agentId \in DOMAIN s.pausedAgents THEN [s |-> s, result |-> Ok]
    ELSE LET s1 == [s EXCEPT !.pausedAgents = FnSet(@, agentId, "IDLE")]
             s2 == send(s1, [type |-> "agent:status-change", agentId |-> agentId,
                             status |-> "PAUSED"])
         IN  [s |-> updateStatus(s2, agentId, "PAUSED"), result |-> Ok]

\* pauseAgent without the early return for an already paused agent
pauseAgent_notIdempotent(s, agentId) ==
    IF ~MapHas(s.ptyProcesses, agentId) THEN [s |-> s, result |-> Fail("AGENT_NOT_FOUND")]
    ELSE LET s1 == [s EXCEPT !.pausedAgents = FnSet(@, agentId, "IDLE")]
             s2 == send(s1, [type |-> "agent:status-change", agentId |-> agentId,
                             status |-> "PAUSED"])
         IN  [s |-> updateStatus(s2, agentId, "PAUSED"), result |-> Ok]

\* pauseAgent without healthMonitor.updateStatus(agentId, 'PAUSED')
pauseAgent_noWatchdogUpdate(s, agentId) ==
    IF ~MapHas(s.ptyProcesses, agentId) THEN [s |-> s, result |-> Fail("AGENT_NOT_FOUND")]
    ELSE IF agentId \in DOMAIN s.pausedAgents THEN [s |-> s, result |-> Ok]
    ELSE LET s1 == [s EXCEPT !.pausedAgents = FnSet(@, agentId, "IDLE")]
             s2 == send(s1, [type |-> "agent:status-change", agentId |-> agentId,
                             status |-> "PAUSED"])
         IN  [s |-> s2, result |-> Ok]

pauseAgent(s, agentId) ==
    IF ~MapHas(s.ptyProcesses, agentId) THEN [s |-> s, result |-> Fail("AGENT_NOT_FOUND")]
    ELSE IF agentId \in DOMAIN s.pausedAgents THEN [s |-> s, result |-> Ok]
    ELSE LET s1 == [s EXCEPT !.pausedAgents = FnSet(@, agentId, "IDLE")]
             s2 == send(s1, [type |-> "agent:status-change", agentId |-> agentId,
                             status |-> "PAUSED"])
         IN  [s |-> updateStatus(s2, agentId, "PAUSED"), result |-> Ok]

\* resumeAgent without the lookup of the agent in ptyProcesses
resumeAgent_noLookup(s, agentId) ==
    IF agentId \notin DOMAIN s.pausedAgents THEN [s |-> s, result |-> Ok]
    ELSE LET previousStatus == s.pausedAgents[agentId]
             s1 == [s EXCEPT !.pausedAgents = FnDelete(@, agentId)]
             s2 == send(s1, [type |-> "agent:status-change", agentId |-> agentId,
                             status |-> previousStatus])
             s3 == updateStatus(s2, agentId, "WORKING")
             s4 == recordActivity(s3, agentId, Undefined)
             s5 == IF agentId \in DOMAIN s4.pausedOutputBuffers
                      /\ s4.pausedOutputBuffers[agentId] # <<>>
                   THEN [push(s4, agentId, s4.pausedOutputBuffers[agentId])
                            EXCEPT !.pausedOutputBuffers = FnDelete(@, agentId)]
                   ELSE s4
         IN  [s |-> s5, result |-> Ok]

\* resumeAgent without the early return for an agent that is not paused
resumeAgent_notIdempotent(s, agentId) ==
    IF ~MapHas(s.ptyProcesses, agentId) THEN [s |-> s, result |-> Fail("AGENT_NOT_FOUND")]
    ELSE LET previousStatus == IF agentId \in DOMAIN s.pausedAgents
                               THEN s.pausedAgents[agentId] ELSE "IDLE"
             s1 == [s EXCEPT !.pausedAgents = FnDelete(@, agentId)]
             s2 == send(s1, [type |-> "agent:status-change", agentId |-> agentId,
                             status |-> previousStatus])
             s3 == updateStatus(s2, agentId, "WORKING")
             s4 == recordActivity(s3, agentId, Undefined)
             s5 == IF agentId \in DOMAIN s4.pausedOutputBuffers
                      /\ s4.pausedOutputBuffers[agentId] # <<>>
                   THEN [push(s4, agentId, s4.pausedOutputBuffers[agentId])
                            EXCEPT !.pausedOutputBuffers = FnDelete(@, agentId)]
                   ELSE s4
         IN  [s |-> s5, result |-> Ok]

\* resumeAgent that deletes the side buffer without pushing it to the throttler
resumeAgent_dropsBuffered(s, agentId) ==
    IF ~MapHas(s.ptyProcesses, agentId) THEN [s |-> s, result |-> Fail("AGENT_NOT_FOUND")]
    ELSE IF agentId \notin DOMAIN s.pausedAgents THEN [s |-> s, result |-> Ok]
    ELSE LET previousStatus == s.pausedAgents[agentId]
             s1 == [s EXCEPT !.pausedAgents = FnDelete(@, agentId)]
             s2 == send(s1, [type |-> "agent:status-change", agentId |-> agentId,
                             status |-> previousStatus])
             s3 == updateStatus(s2, agentId, "WORKING")
             s4 == recordActivity(s3, agentId, Undefined)
         IN  [s |-> [s4 EXCEPT !.pausedOutputBuffers = FnDelete(@, agentId)], result |-> Ok]

resumeAgent(s, agentId) ==
    IF ~MapHas(s.ptyProcesses, agentId) THEN [s |-> s, result |-> Fail("AGENT_NOT_FOUND")]
    ELSE IF agentId \notin DOMAIN s.pausedAgents THEN [s |-> s, result |-> Ok]
    ELSE LET previousStatus == s.pausedAgents[agentId]
             s1 == [s EXCEPT !.pausedAgents = FnDelete(@, agentId)]
             s2 == send(s1, [type |-> "agent:status-change", agentId |-> agentId,
                             status |-> previousStatus])
             s3 == updateStatus(s2, agentId, "WORKING")
             s4 == recordActivity(s3, agentId, Undefined)
             s5 == IF agentId \in DOMAIN s4.pausedOutputBuffers
                      /\ s4.pausedOutputBuffers[agentId] # <<>>
                   THEN [push(s4, agentId, s4.pausedOutputBuffers[agentId])
                            EXCEPT !.pausedOutputBuffers = FnDelete(@, agentId)]
                   ELSE s4
         IN  [s |-> s5, result |-> Ok]

\* the loop of broadcastCommand without the pausedAgents check
RECURSIVE broadcastFrom_noPauseCheck(_, _, _, _)
broadcastFrom_noPauseCheck(acc, commands, throws, i) ==
    IF i > Len(commands) THEN acc
    ELSE LET agentId == commands[i][1]
             command == commands[i][2]
         IN  IF agentId \in throws
             THEN broadcastFrom_noPauseCheck(
                     [acc EXCEPT !.errors = FnSet(@, agentId, "threw")], commands, throws, i + 1)
             ELSE broadcastFrom_noPauseCheck(
                     [acc EXCEPT !.s.written = Append(@, [agentId |-> agentId,
                                                          data |-> command \o <<Lit("\r")>>]),
                                 !.sentTo = Append(@, agentId)],
                     commands, throws, i + 1)

\* the loop of broadcastCommand over the entries of `commands`, from entry i
\* on; acc is [s, sentTo, errors], and the write throws for the ids of `throws`
RECURSIVE broadcastFrom(_, _, _, _)
broadcastFrom(acc, commands, throws, i) ==
    IF i > Len(commands) THEN acc
    ELSE LET agentId == commands[i][1]
             command == commands[i][2]
         IN  IF agentId \in DOMAIN acc.s.pausedAgents
             THEN broadcastFrom([acc EXCEPT !.errors = FnSet(@, agentId, "Agent is paused")],
                                commands, throws, i + 1)
             ELSE IF MapHas(acc.s.ptyProcesses, agentId)
             THEN IF agentId \in throws
                  THEN broadcastFrom([acc EXCEPT !.errors = FnSet(@, agentId, "threw")],
                                     commands, throws, i + 1)
                  ELSE broadcastFrom(
                          [acc EXCEPT !.s.written = Append(@, [agentId |-> agentId,
                                                               data |-> command \o <<Lit("\r")>>]),
                                      !.sentTo = Append(@, agentId)],
                          commands, throws, i + 1)
             ELSE broadcastFrom([acc EXCEPT !.errors = FnSet(@, agentId, "Agent not found")],
                                commands, throws, i + 1)

\* broadcastCommand(payload): [s, result]; result.errors is the empty
\* function where the code returns undefined
broadcastCommand(s, payload, throws) ==
    LET allAgentIds == MapKeys(s.ptyProcesses)
        commands == prepareBroadcast(s, payload, allAgentIds)
        acc == broadcastFrom([s |-> s, sentTo |-> <<>>, errors |-> EmptyFn],
                             commands, throws, 1)
    IN  [s |-> acc.s,
         result |-> [success |-> DOMAIN acc.errors = {}, sentTo |-> acc.sentTo,
                     errors |-> acc.errors]]

\* a stall callback that also refreshes the session's last-activity timestamp
onStall_refreshesActivity(s, agentId, duration) ==
    send([s EXCEPT !.stallCalls = Append(@, [agentId |-> agentId, duration |-> duration]),
                   !.lastActivity = MapSet(@, agentId, s.now)],
         [type |-> "agent:status-change", agentId |-> agentId, status |-> "STALLED"])

\* AgentManager.stop(): `throws` are the ids whose ptyProcess.kill() throws,
\* which is ignored
stop(s, throws) ==
    [throttlerStop(s) EXCEPT !.ptyProcesses = <<>>, !.agentMetadata = {},
                             !.pausedAgents = EmptyFn, !.pausedOutputBuffers = EmptyFn]

\* The stall callback the AgentManager constructor hands to healthMonitor.start
onStall(s, agentId, duration) ==
    send([s EXCEPT !.stallCalls = Append(@, [agentId |-> agentId, duration |-> duration])],
         [type |-> "agent:status-change", agentId |-> agentId, status |-> "STALLED"])

----------------------------------------------------------------------------
\* ConfigLoader (electron/config-loader.ts).  A compiled pattern is known by
\* its kind; an output line is the set of pattern kinds whose regex, where the
\* parser has one, matches the line.

PatternType == {"thinking", "tool_use", "reading", "searching", "error", "waiting"}

\* the stateMapping the constructor sets
defaultStateMapping ==
    [thinking |-> "THINKING", tool_use |-> "WORKING", reading |-> "WORKING",
     searching |-> "WORKING", error |-> "ERROR", waiting |-> "WAITING_USER"]

\* loadDefaults(): eight parsers, each with all six patterns
loadDefaults ==
    [t \in {"claude", "gemini", "aider", "codex", "opencode", "cursor", "copilot", "custom"}
       |-> PatternType]

\* a pattern string of the file: one that is a regular expression, and one
\* that `new RegExp` throws on
PatternStrings == {"regex", "[invalid(regex"}

\* what config/parsers.json can hold: text that JSON.parse throws on
\* (json = FALSE), or `parsers` with the pattern strings per CLI type and
\* `stateMapping` with the entries that override
ConfigFiles ==
    {[json |-> TRUE, parsers |-> ps, stateMapping |-> sm] :
        ps \in {[t \in {"claude"} |-> [k \in PatternType |-> "regex"]],
                [t \in {"claude", "custom"} |->
                    IF t = "claude"
                    THEN [k \in {"thinking", "tool_use", "waiting"} |-> "regex"]
                    ELSE [k \in {"error", "thinking", "searching"} |-> "regex"]],
                [t \in {"custom"} |-> EmptyFn],
                [t \in {"claude", "mytool"} |->
                    IF t = "claude"
                    THEN [k \in {"thinking", "error", "waiting"} |->
                            IF k = "thinking" THEN "[invalid(regex" ELSE "regex"]
                    ELSE [k \in {"error", "tool_use"} |-> "regex"]],
                [t \in {"mytool"} |-> [k \in {"error"} |-> "[invalid(regex"]]},
        sm \in {EmptyFn, [k \in {"error"} |-> "WAITING_USER"]}}
    \cup {[json |-> FALSE, parsers |-> EmptyFn, stateMapping |-> EmptyFn]}

\* parsers.set for every default parser, over what the map holds
setDefaults(ps) ==
    [t \in DOMAIN ps \cup DOMAIN loadDefaults |->
        IF t \in DOMAIN loadDefaults THEN loadDefaults[t] ELSE ps[t]]

\* the compile loop of load() that gives up on the first pattern that throws
compilePatterns_allOrNothing(patterns) ==
    IF \E k \in DOMAIN patterns : patterns[k] = "[invalid(regex" THEN {}
    ELSE DOMAIN patterns

\* the compile loop of load(): the kinds of one parser whose pattern compiles
compilePatterns(patterns) ==
    {k \in DOMAIN patterns : patterns[k] # "[invalid(regex"}

\* load() that lets the exception of `new RegExp` reach its outer catch
load_fallsBack(ps, mapping, file) ==
    IF file = <<>> \/ ~file[1].json
       \/ \E t \in DOMAIN file[1].parsers :
             \E k \in DOMAIN file[1].parsers[t] : file[1].parsers[t][k] = "[invalid(regex"
    THEN [parsers |-> setDefaults(ps), stateMapping |-> mapping]
    ELSE [parsers |-> [t \in DOMAIN file[1].parsers |-> compilePatterns(file[1].parsers[t])],
          stateMapping |-> [k \in PatternType |->
                               IF k \in DOMAIN file[1].stateMapping
                               THEN file[1].stateMapping[k] ELSE mapping[k]]]

\* load(): `file` is <<c>> for the content c of the file, or <<>> when the
\* file is missing; ps and mapping are the parsers and the stateMapping
\* before, the result [parsers, stateMapping] those afterwards
load(ps, mapping, file) ==
    IF file = <<>> \/ ~file[1].json
    THEN [parsers |-> setDefaults(ps), stateMapping |-> mapping]
    ELSE [parsers |-> [t \in DOMAIN file[1].parsers |-> compilePatterns(file[1].parsers[t])],
          stateMapping |-> [k \in PatternType |->
                               IF k \in DOMAIN file[1].stateMapping
                               THEN file[1].stateMapping[k] ELSE mapping[k]]]

\* detectState with the thinking pattern checked first
patternOrder_thinkingFirst ==
    <<"thinking", "error", "waiting", "tool_use", "reading", "searching">>

patternOrder == <<"error", "waiting", "thinking", "tool_use", "reading", "searching">>

\* the loop of detectState over patternOrder, from entry i on
RECURSIVE ConfigLoader_detectStateFrom(_, _, _, _)
ConfigLoader_detectStateFrom(patterns, mapping, output, i) ==
    IF i > Len(patternOrder) THEN Undefined
    ELSE IF patternOrder[i] \in patterns /\ patternOrder[i] \in output
    THEN mapping[patternOrder[i]]
    ELSE ConfigLoader_detectStateFrom(patterns, mapping, output, i + 1)

\* ConfigLoader.detectState(agentType, output); Undefined is null
ConfigLoader_detectState(ps, mapping, agentType, output) ==
    IF agentType \notin DOMAIN ps THEN Undefined
    ELSE ConfigLoader_detectStateFrom(ps[agentType], mapping, output, 1)

----------------------------------------------------------------------------
\* Classification of output in the renderer (src/utils/parser.ts).  The text
\* of a chunk is the set of STATE_PATTERNS indicators that occur in it; a
\* pattern matches a string iff its indicator occurs in one of its chunks.

STATE_PATTERNS ==
    << [pattern |-> "Thinking",  status |-> "THINKING"],
       [pattern |-> "ToolUse",   status |-> "WORKING"],
       [pattern |-> "Running",   status |-> "WORKING"],
       [pattern |-> "Error",     status |-> "ERROR"],
       [pattern |-> "Exception", status |-> "ERROR"],
       [pattern |-> "Cross",     status |-> "ERROR"] >>

Indicators(content) == UNION {content[i].text : i \in 1..Len(content)}

RECURSIVE detectStateFrom(_, _)
detectStateFrom(content, i) ==
    IF i > Len(STATE_PATTERNS) THEN Undefined
    ELSE IF STATE_PATTERNS[i].pattern \in Indicators(content) THEN STATE_PATTERNS[i].status
    ELSE detectStateFrom(content, i + 1)

\* detectState that answers 'IDLE' when no pattern matches
detectState_defaultsIdle(logLine) ==
    IF detectStateFrom(logLine, 1) = Undefined THEN "IDLE" ELSE detectStateFrom(logLine, 1)

detectState(logLine) == detectStateFrom(logLine, 1)

----------------------------------------------------------------------------
\* The consumer store (stores/agentStore.ts).  Its state as one record;
\* every operation that awaits the main process is split at the await.

StoreState == [agents |-> agents, pausedPreviousStatus |-> pausedPreviousStatus]

MAX_LOGS == 10000

\* handleIncomingLog without the PAUSED guard on the status update
handleIncomingLog_noPausedGuard(st, payload) ==
    IF payload.agentId \notin DOMAIN st.agents THEN st
    ELSE LET agent == st.agents[payload.agentId]
             logs1 == Append(agent.logs, [content |-> payload.content, type |-> payload.type])
             detectedStatus == detectState(payload.content)
             status1 == IF detectedStatus # Undefined THEN detectedStatus ELSE agent.status
         IN  [st EXCEPT !.agents[payload.agentId] = [status |-> status1, logs |-> logs1]]

handleIncomingLog(st, payload) ==
    IF payload.agentId \notin DOMAIN st.agents THEN st
    ELSE LET agent == st.agents[payload.agentId]
             logs1 == Append(agent.logs, [content |-> payload.content, type |-> payload.type])
             detectedStatus == detectState(payload.content)
             status1 == IF detectedStatus # Undefined /\ agent.status # "PAUSED"
                        THEN detectedStatus ELSE agent.status
             logs2 == IF Len(logs1) > MAX_LOGS
                      THEN SubSeq(logs1, Len(logs1) - MAX_LOGS + 1, Len(logs1)) ELSE logs1
         IN  [st EXCEPT !.agents[payload.agentId] = [status |-> status1, logs |-> logs2]]

storeUpdateStatus(st, agentId, status) ==
    IF agentId \in DOMAIN st.agents
    THEN [st EXCEPT !.agents[agentId].status = status]
    ELSE st

\* The listeners of initializeIpcListeners, through the preload bridge:
\* onAgentLog, onAgentStatusChange; nothing listens to agent:exit
ipcListener(st, event) ==
    IF event.type = "agent:update"
    THEN handleIncomingLog(st, [agentId |-> event.agentId, content |-> event.data,
                                type |-> "stdout"])
    ELSE IF event.type = "agent:status-change"
    THEN storeUpdateStatus(st, event.agentId, event.status)
    ELSE st

RECURSIVE ipcDeliver(_, _)
ipcDeliver(st, events) ==
    IF events = <<>> THEN st
    ELSE ipcDeliver(ipcListener(st, Head(events)), Tail(events))

\* pauseAgent that saves 'IDLE' in place of the agent's status
storePauseAgentBegin_savesIdle(st, agentId) ==
    IF agentId \notin DOMAIN st.agents THEN [st |-> st, returned |-> TRUE, value |-> FALSE]
    ELSE IF st.agents[agentId].status = "PAUSED" THEN [st |-> st, returned |-> TRUE, value |-> TRUE]
    ELSE [st |-> [st EXCEPT !.pausedPreviousStatus = FnSet(@, agentId, "IDLE")],
          returned |-> FALSE, value |-> FALSE]

\* pauseAgent up to `await window.electronAPI.pauseAgent(agentId)`:
\* [st, returned, value]; returned = FALSE means the call was sent
storePauseAgentBegin(st, agentId) ==
    IF agentId \notin DOMAIN st.agents THEN [st |-> st, returned |-> TRUE, value |-> FALSE]
    ELSE IF st.agents[agentId].status = "PAUSED" THEN [st |-> st, returned |-> TRUE, value |-> TRUE]
    ELSE [st |-> [st EXCEPT !.pausedPreviousStatus = FnSet(@, agentId, st.agents[agentId].status)],
          returned |-> FALSE, value |-> FALSE]

\* pauseAgent from the reply on; `agent` is the object read before the await
storePauseAgentReply(st, agentId, result) ==
    IF ~result.success
    THEN [st |-> [st EXCEPT !.pausedPreviousStatus = FnDelete(@, agentId)], value |-> FALSE]
    ELSE [st |-> storeUpdateStatus(st, agentId, "PAUSED"), value |-> TRUE]

storeResumeAgentBegin(st, agentId) ==
    IF agentId \notin DOMAIN st.agents THEN [st |-> st, returned |-> TRUE, value |-> FALSE]
    ELSE IF st.agents[agentId].status # "PAUSED" THEN [st |-> st, returned |-> TRUE, value |-> TRUE]
    ELSE [st |-> st, returned |-> FALSE, value |-> FALSE]

storeResumeAgentReply(st, agentId, result) ==
    IF ~result.success THEN [st |-> st, value |-> FALSE]
    ELSE LET previousStatus == IF agentId \in DOMAIN st.pausedPreviousStatus
                               THEN st.pausedPreviousStatus[agentId] ELSE "IDLE"
             st1 == [st EXCEPT !.pausedPreviousStatus = FnDelete(@, agentId)]
         IN  [st |-> storeUpdateStatus(st1, agentId, previousStatus), value |-> TRUE]

\* sendCommand up to `await window.electronAPI.sendCommand(agentId, text)`
storeSendCommandBegin(st, agentId) ==
    IF agentId \notin DOMAIN st.agents THEN [st |-> st, returned |-> TRUE, value |-> FALSE]
    ELSE [st |-> st, returned |-> FALSE, value |-> FALSE]

\* sendCommand that adds the command to the log as a 'stdin' entry
storeSendCommandReply_logsStdin(st, agentId, result) ==
    IF agentId \notin DOMAIN st.agents THEN [st |-> st, value |-> TRUE]
    ELSE [st |-> [st EXCEPT !.agents[agentId].logs =
                     Append(@, [content |-> <<>>, type |-> "stdin"])],
          value |-> TRUE]

\* sendCommand from the reply on: the result is not read; a call that was
\* rejected (error = "rejected") is caught and logged on the `agent` object
\* read before the await
storeSendCommandReply(st, agentId, result) ==
    IF result.error = "rejected" /\ agentId \in DOMAIN st.agents
    THEN [st |-> [st EXCEPT !.agents[agentId].logs =
                     Append(@, [content |-> <<>>, type |-> "system"])],
          value |-> FALSE]
    ELSE [st |-> st, value |-> TRUE]

\* killAgent from the reply on: the result of the main process is not read
storeKillAgentReply(st, agentId, result) ==
    [st |-> [st EXCEPT !.pausedPreviousStatus = FnDelete(@, agentId),
                       !.agents = FnDelete(@, agentId)],
     value |-> TRUE]

\* spawnAgent that does not throw on a failure result: the session is created
\* as after a successful spawn, under the fallback id
storeSpawnAgentReply_ignoresError(st, localId, result) ==
    LET id == IF result.success /\ result.agentId # Undefined THEN result.agentId ELSE localId
    IN  [st |-> [st EXCEPT !.agents = FnSet(@, id, [status |-> "IDLE", logs |-> <<>>])],
         value |-> id]

\* spawnAgent from the reply on; localId is the generateId() fallback.  A
\* result with an error text is thrown and caught: the error session
storeSpawnAgentReply(st, localId, result) ==
    LET id == IF result.success /\ result.agentId # Undefined THEN result.agentId ELSE localId
        thrown == ~(result.success /\ result.agentId # Undefined)
                     /\ result.error # Undefined /\ result.error # ""
    IN  IF thrown
        THEN [st |-> [st EXCEPT !.agents = FnSet(@, id,
                         [status |-> "ERROR",
                          logs |-> << [content |-> <<>>, type |-> "system"] >>])],
              value |-> id]
        ELSE [st |-> [st EXCEPT !.agents = FnSet(@, id, [status |-> "IDLE", logs |-> <<>>])],
              value |-> id]

----------------------------------------------------------------------------
\* HealthMonitor.checkHealth: the loop over lastActivity, from entry i on

RECURSIVE checkHealthFrom(_, _)
checkHealthFrom(s, i) ==
    IF i > Len(s.lastActivity) THEN s
    ELSE LET agentId == s.lastActivity[i][1]
             lastActive == s.lastActivity[i][2]
             status == FnGet(s.agentStatuses, agentId)
             duration == s.now - lastActive
         IN  IF (status = "WORKING" \/ status = "THINKING") /\ duration > stallTimeout
             THEN checkHealthFrom(onStall(s, agentId, duration), i + 1)
             ELSE checkHealthFrom(s, i + 1)

\* checkHealth that goes over the sessions twice
checkHealth_twice(s) == checkHealthFrom(checkHealthFrom(s, 1), 1)

checkHealth(s) == checkHealthFrom(s, 1)

----------------------------------------------------------------------------
\* Steps

RECURSIVE recordDelivered(_, _)
recordDelivered(d, sinkSeq) ==
    IF sinkSeq = <<>> THEN d
    ELSE recordDelivered([d EXCEPT ![Head(sinkSeq).agentId] = @ \o Head(sinkSeq).data],
                         Tail(sinkSeq))

CommitMain(s) ==
    /\ ptyProcesses' = s.ptyProcesses
    /\ agentMetadata' = s.agentMetadata
    /\ pausedAgents' = s.pausedAgents
    /\ pausedOutputBuffers' = s.pausedOutputBuffers
    /\ mainWindow' = s.mainWindow
    /\ buffer' = s.buffer
    /\ isRunning' = s.isRunning
    /\ lastActivity' = s.lastActivity
    /\ agentStatuses' = s.agentStatuses
    /\ agentTags' = s.agentTags
    /\ trackedPids' = s.trackedPids
    /\ emitted' = s.emitted
    /\ sinkCalls' = s.sinkCalls
    /\ written' = s.written
    /\ stallCalls' = s.stallCalls
    /\ delivered' = recordDelivered(delivered, s.sinkCalls)
    /\ UNCHANGED cfgVars

CommitStore(st) ==
    /\ agents' = st.agents
    /\ pausedPreviousStatus' = st.pausedPreviousStatus

\* An event that is not the notification of a pause or a resume itself
Foreign(event) ==
    \/ event.type = "agent:update"
    \/ event.type = "agent:status-change" /\ event.status = "STALLED"

Disturbed(events) ==
    {events[i].agentId : i \in {j \in 1..Len(events) : Foreign(events[j])}}

\* A step of the main process: what it sends reaches the renderer's listeners
MainStep(s) ==
    /\ CommitMain(s)
    /\ CommitStore(ipcDeliver(StoreState, s.emitted))
    /\ pauseCycle' = [id \in DOMAIN pauseCycle \ Disturbed(s.emitted) |-> pauseCycle[id]]

\* A step of the renderer alone
RendererStep(st) == CommitMain(MainState) /\ CommitStore(st)

Returned(op, agentId, result) ==
    [op |-> op, agentId |-> agentId, success |-> result.success, error |-> result.error]

TotalChunks == LET ids == DOMAIN emittedChunks
               IN  IF ids = {} THEN 0
                   ELSE LET RECURSIVE Sum(_)
                            Sum(S) == IF S = {} THEN 0
                                      ELSE LET x == CHOOSE y \in S : TRUE
                                           IN  emittedChunks[x] + Sum(S \ {x})
                        IN  Sum(ids)

FreshIds(pool) == {id \in pool : proc[id] = "none"}

\* ---- the environment: the processes, the timers, the clock, the window

PtyData(agentId, text, limit) ==
    /\ proc[agentId] \in {"running", "killed"}
    /\ TotalChunks < limit
    /\ LET data == << [n |-> emittedChunks[agentId] + 1, text |-> text] >>
       IN  MainStep(onData(MainState, agentId, data))
    /\ emittedChunks' = [emittedChunks EXCEPT ![agentId] = @ + 1]
    /\ ret' = Returned("onData", agentId, Ok)
    /\ UNCHANGED <<proc, now, agentCounter, calls>>

PtyExit(agentId, exitCode) ==
    /\ proc[agentId] \in {"running", "killed"}
    /\ MainStep(onExit(MainState, agentId, exitCode))
    /\ proc' = [proc EXCEPT ![agentId] = "exited"]
    /\ ret' = [op |-> "onExit", agentId |-> agentId, success |-> TRUE, error |-> Undefined,
               exitCode |-> exitCode]
    /\ UNCHANGED <<emittedChunks, now, agentCounter, calls>>

FlushTick ==
    /\ isRunning
    /\ MainStep(flush(MainState))
    /\ ret' = Returned("flush", Undefined, Ok)
    /\ UNCHANGED <<envVars, agentCounter, calls>>

CheckHealthTick ==
    /\ MainStep(checkHealth(MainState))
    /\ ret' = Returned("checkHealth", Undefined, Ok)
    /\ UNCHANGED <<envVars, agentCounter, calls>>

ClockTick ==
    /\ now < MaxTime
    /\ now' = now + 1
    /\ MainStep(MainState)
    /\ ret' = Returned("clock", Undefined, Ok)
    /\ UNCHANGED <<proc, emittedChunks, agentCounter, calls>>

SetMainWindow(window) ==
    /\ window # mainWindow
    /\ MainStep([MainState EXCEPT !.mainWindow = window])
    /\ ret' = Returned("setMainWindow", Undefined, Ok)
    /\ UNCHANGED <<envVars, agentCounter, calls>>

\* ---- the operations of the main process, called over IPC (electron/main.ts)

\* spawnAgent: outcome is "ok", "noscript" (no launch script found) or
\* "throw" (pty.spawn throws)
SpawnAgent(agentId, outcome) ==
    /\ proc[agentId] = "none"
    /\ IF outcome = "ok"
       THEN /\ MainStep(spawnRegister(MainState, agentId))
            /\ proc' = [proc EXCEPT ![agentId] = "running"]
            /\ ret' = Returned("spawn", agentId, Ok)
       ELSE /\ MainStep(MainState)
            /\ proc' = proc
            /\ ret' = Returned("spawn", Undefined, Fail(outcome))
    /\ UNCHANGED <<emittedChunks, now, agentCounter, calls>>

ResizeTerminal(agentId, throws) ==
    /\ LET r == resizeTerminal(MainState, agentId, throws)
       IN  MainStep(r.s) /\ ret' = Returned("resize", agentId, r.result)
    /\ UNCHANGED <<envVars, agentCounter, calls>>

SendCommand(agentId, command, throws) ==
    /\ LET r == sendCommand(MainState, agentId, command, throws)
       IN  MainStep(r.s) /\ ret' = Returned("sendCommand", agentId, r.result)
    /\ UNCHANGED <<envVars, agentCounter, calls>>

KillAgent(agentId, throws) ==
    /\ LET r == killAgent(MainState, agentId, throws)
       IN  /\ MainStep(r.s)
           /\ ret' = Returned("kill", agentId, r.result)
           /\ proc' = IF r.result.success /\ proc[agentId] = "running"
                      THEN [proc EXCEPT ![agentId] = "killed"] ELSE proc
    /\ UNCHANGED <<emittedChunks, now, agentCounter, calls>>

PauseAgent(agentId) ==
    /\ LET r == pauseAgent(MainState, agentId)
       IN  MainStep(r.s) /\ ret' = Returned("pause", agentId, r.result)
    /\ UNCHANGED <<envVars, agentCounter, calls>>

ResumeAgent(agentId) ==
    /\ LET r == resumeAgent(MainState, agentId)
       IN  MainStep(r.s) /\ ret' = Returned("resume", agentId, r.result)
    /\ UNCHANGED <<envVars, agentCounter, calls>>

SetTags(agentId, tags) ==
    /\ MainStep(setTags(MainState, agentId, tags))
    /\ ret' = Returned("setTags", agentId, Ok)
    /\ UNCHANGED <<envVars, agentCounter, calls>>

----------------------------------------------------------------------------
\* The Supervisor and its trackers, driven directly over IPC

Init ==
    /\ ptyProcesses = <<>>
    /\ agentMetadata = {}
    /\ pausedAgents = EmptyFn
    /\ pausedOutputBuffers = EmptyFn
    /\ mainWindow = TRUE
    /\ buffer = <<>>
    /\ isRunning = TRUE
    /\ lastActivity = <<>>
    /\ agentStatuses = EmptyFn
    /\ agentTags = EmptyFn
    /\ trackedPids = {}
    /\ parsers = loadDefaults
    /\ stateMapping = defaultStateMapping
    /\ proc = [id \in AllIds |-> "none"]
    /\ emittedChunks = [id \in AllIds |-> 0]
    /\ now = 0
    /\ agents = EmptyFn
    /\ pausedPreviousStatus = EmptyFn
    /\ agentCounter = 0
    /\ calls = <<>>
    /\ ret = Returned("init", Undefined, Ok)
    /\ emitted = <<>>
    /\ sinkCalls = <<>>
    /\ written = <<>>
    /\ stallCalls = <<>>
    /\ delivered = [id \in AllIds |-> <<>>]
    /\ pauseCycle = EmptyFn

Next ==
    \/ \E id \in AgentIds : PtyData(id, {}, MaxChunks)
    \/ \E id \in AgentIds, code \in ExitCodes : PtyExit(id, code)
    \/ FlushTick
    \/ CheckHealthTick
    \/ ClockTick
    \/ \E w \in BOOLEAN : SetMainWindow(w)
    \/ \E id \in SpawnIds, outcome \in {"ok", "noscript", "throw"} : SpawnAgent(id, outcome)
    \/ \E id \in AgentIds, throws \in BOOLEAN : ResizeTerminal(id, throws)
    \/ \E id \in AgentIds, c \in Commands, throws \in BOOLEAN : SendCommand(id, c, throws)
    \/ \E id \in AgentIds, throws \in BOOLEAN : KillAgent(id, throws)
    \/ \E id \in AgentIds : PauseAgent(id)
    \/ \E id \in AgentIds : ResumeAgent(id)
    \/ \E id \in AgentIds, tags \in SUBSET Tags : SetTags(id, tags)

Spec == Init /\ [][Next]_vars

----------------------------------------------------------------------------
\* The consumer store in front of the main process, with the clock standing
\* still (no session can stall).  A call is an
\* ipcRenderer.invoke in flight: the main process handles the calls in the
\* order they were sent and the renderer gets the replies in that order.

Call(op, agentId, localId) ==
    [op |-> op, agentId |-> agentId, localId |-> localId, done |-> FALSE,
     result |-> [success |-> FALSE, error |-> Undefined, agentId |-> Undefined]]

StoreReturned(op, agentId, value) ==
    [op |-> op, agentId |-> agentId, success |-> value, error |-> Undefined]

\* an operation on agentId is sent while an earlier call on it is in flight:
\* the two are no longer one operation followed by the other
Overlaps(agentId) == \E i \in 1..Len(calls) : calls[i].agentId = agentId

\* the part of an operation before its await; it returns, or sends the call
StoreBegin(op, agentId, r) ==
    /\ r.returned \/ Len(calls) < MaxCalls
    /\ RendererStep(r.st)
    /\ calls' = IF r.returned THEN calls ELSE Append(calls, Call(op, agentId, Undefined))
    /\ ret' = IF r.returned THEN StoreReturned(op, agentId, r.value)
              ELSE [op |-> op, agentId |-> agentId, success |-> FALSE, error |-> "awaiting"]
    /\ pauseCycle' = IF r.returned THEN pauseCycle
                     ELSE IF Overlaps(agentId) THEN FnDelete(pauseCycle, agentId)
                     ELSE IF op = "store.pauseAgent"
                     THEN FnSet(pauseCycle, agentId, agents[agentId].status)
                     ELSE pauseCycle
    /\ UNCHANGED <<envVars, agentCounter>>

StoreSpawnAgentBegin ==
    /\ agentCounter < Len(LocalIdOf)
    /\ Len(calls) < MaxCalls
    /\ agentCounter' = agentCounter + 1
    /\ RendererStep(StoreState)
    /\ calls' = Append(calls, Call("store.spawnAgent", Undefined, LocalIdOf[agentCounter + 1]))
    /\ ret' = [op |-> "store.spawnAgent", agentId |-> Undefined, success |-> FALSE,
               error |-> "awaiting"]
    /\ UNCHANGED <<envVars, pauseCycle>>

StoreKillAgentBegin(agentId) ==
    StoreBegin("store.killAgent", agentId, [st |-> StoreState, returned |-> FALSE, value |-> FALSE])

StorePauseAgentBegin(agentId) ==
    StoreBegin("store.pauseAgent", agentId, storePauseAgentBegin(StoreState, agentId))

StoreResumeAgentBegin(agentId) ==
    StoreBegin("store.resumeAgent", agentId, storeResumeAgentBegin(StoreState, agentId))

\* the oldest call the main process has not handled yet
PendingCall == CHOOSE i \in 1..Len(calls) : ~calls[i].done /\ \A j \in 1..(i - 1) : calls[j].done

HasPendingCall == \E i \in 1..Len(calls) : ~calls[i].done

MainResult(r) == [success |-> r.success, error |-> r.error, agentId |-> Undefined]

\* ipcMain.handle: the main process runs the handler of the oldest call
MainHandleSpawn(agentId, outcome) ==
    /\ HasPendingCall
    /\ calls[PendingCall].op = "store.spawnAgent"
    /\ outcome = "ok" => agentId \in FreshIds(StoreAgentIds)
    /\ IF outcome = "ok"
       THEN /\ MainStep(spawnRegister(MainState, agentId))
            /\ proc' = [proc EXCEPT ![agentId] = "running"]
            /\ ret' = Returned("spawn", agentId, Ok)
            /\ calls' = [calls EXCEPT ![PendingCall].done = TRUE,
                                      ![PendingCall].result =
                                          [success |-> TRUE, error |-> Undefined, agentId |-> agentId]]
       ELSE /\ MainStep(MainState)
            /\ proc' = proc
            /\ ret' = Returned("spawn", Undefined, Fail(outcome))
            /\ calls' = [calls EXCEPT ![PendingCall].done = TRUE,
                                      ![PendingCall].result = MainResult(Fail(outcome))]
    /\ UNCHANGED <<emittedChunks, now, agentCounter>>

MainHandleKill(throws) ==
    /\ HasPendingCall
    /\ calls[PendingCall].op = "store.killAgent"
    /\ LET agentId == calls[PendingCall].agentId
           r == killAgent(MainState, agentId, throws)
       IN  /\ MainStep(r.s)
           /\ ret' = Returned("kill", agentId, r.result)
           /\ proc' = IF r.result.success /\ proc[agentId] = "running"
                      THEN [proc EXCEPT ![agentId] = "killed"] ELSE proc
           /\ calls' = [calls EXCEPT ![PendingCall].done = TRUE,
                                     ![PendingCall].result = MainResult(r.result)]
    /\ UNCHANGED <<emittedChunks, now, agentCounter>>

MainHandlePause ==
    /\ HasPendingCall
    /\ calls[PendingCall].op = "store.pauseAgent"
    /\ LET agentId == calls[PendingCall].agentId
           r == pauseAgent(MainState, agentId)
       IN  /\ MainStep(r.s)
           /\ ret' = Returned("pause", agentId, r.result)
           /\ calls' = [calls EXCEPT ![PendingCall].done = TRUE,
                                     ![PendingCall].result = MainResult(r.result)]
    /\ UNCHANGED <<envVars, agentCounter>>

MainHandleResume ==
    /\ HasPendingCall
    /\ calls[PendingCall].op = "store.resumeAgent"
    /\ LET agentId == calls[PendingCall].agentId
           r == resumeAgent(MainState, agentId)
       IN  /\ MainStep(r.s)
           /\ ret' = Returned("resume", agentId, r.result)
           /\ calls' = [calls EXCEPT ![PendingCall].done = TRUE,
                                     ![PendingCall].result = MainResult(r.result)]
    /\ UNCHANGED <<envVars, agentCounter>>

\* the renderer gets the reply of its oldest call and the operation goes on
storeReply(st, call) ==
    IF call.op = "store.spawnAgent" THEN storeSpawnAgentReply(st, call.localId, call.result)
    ELSE IF call.op = "store.killAgent" THEN storeKillAgentReply(st, call.agentId, call.result)
    ELSE IF call.op = "store.pauseAgent" THEN storePauseAgentReply(st, call.agentId, call.result)
    ELSE IF call.op = "store.sendCommand" THEN storeSendCommandReply(st, call.agentId, call.result)
    ELSE storeResumeAgentReply(st, call.agentId, call.result)

StoreReply ==
    /\ calls # <<>>
    /\ Head(calls).done
    /\ LET call == Head(calls)
           r == storeReply(StoreState, call)
       IN  /\ RendererStep(r.st)
           /\ ret' = IF call.op = "store.spawnAgent"
                     THEN [op |-> call.op, agentId |-> r.value, success |-> call.result.success,
                           error |-> "returned"]
                     ELSE [op |-> call.op, agentId |-> call.agentId, success |-> r.value,
                           error |-> "returned"]
    /\ calls' = Tail(calls)
    /\ pauseCycle' = IF Head(calls).op = "store.killAgent"
                     THEN FnDelete(pauseCycle, Head(calls).agentId) ELSE pauseCycle
    /\ UNCHANGED <<envVars, agentCounter>>

StoreOpIds == StoreAgentIds \cup LocalIds

\* sendCommand before its await: the call carries the text
StoreSendCommandBegin(agentId, text) ==
    /\ LET r == storeSendCommandBegin(StoreState, agentId)
       IN  /\ r.returned \/ Len(calls) < MaxCalls
           /\ RendererStep(r.st)
           /\ calls' = IF r.returned THEN calls
                       ELSE Append(calls, Call("store.sendCommand", agentId, Undefined)
                                             @@ [text |-> text])
           /\ ret' = IF r.returned THEN StoreReturned("store.sendCommand", agentId, r.value)
                     ELSE [op |-> "store.sendCommand", agentId |-> agentId, success |-> FALSE,
                           error |-> "awaiting"]
           /\ pauseCycle' = IF ~r.returned /\ Overlaps(agentId)
                            THEN FnDelete(pauseCycle, agentId) ELSE pauseCycle
    /\ UNCHANGED <<envVars, agentCounter>>

\* the main process handles a sendCommand call; `rejects`: the invoke is
\* rejected instead (the handler is not reached)
MainHandleSendCommand(throws, rejects) ==
    /\ HasPendingCall
    /\ calls[PendingCall].op = "store.sendCommand"
    /\ LET agentId == calls[PendingCall].agentId
           text == calls[PendingCall].text
           r == sendCommand(MainState, agentId, text, throws)
       IN  IF rejects
           THEN /\ agentId \in DOMAIN agents => Len(agents[agentId].logs) < MaxSystemLogs
                /\ MainStep(MainState)
                /\ ret' = Returned("sendCommand", agentId, Fail("rejected"))
                /\ calls' = [calls EXCEPT ![PendingCall].done = TRUE,
                                          ![PendingCall].result = MainResult(Fail("rejected"))]
           ELSE /\ MainStep(r.s)
                /\ ret' = Returned("sendCommand", agentId, r.result)
                /\ calls' = [calls EXCEPT ![PendingCall].done = TRUE,
                                          ![PendingCall].result = MainResult(r.result)]
    /\ UNCHANGED <<envVars, agentCounter>>

NextStore ==
    \/ \E id \in StoreAgentIds, text \in ChunkTexts : PtyData(id, text, MaxStoreChunks)
    \/ \E id \in StoreAgentIds, code \in ExitCodes : PtyExit(id, code)
    \/ FlushTick
    \/ StoreSpawnAgentBegin
    \/ \E id \in StoreOpIds : StoreKillAgentBegin(id)
    \/ \E id \in StoreOpIds : StorePauseAgentBegin(id)
    \/ \E id \in StoreOpIds : StoreResumeAgentBegin(id)
    \/ \E id \in StoreAgentIds, outcome \in {"ok", "noscript", "throw"} : MainHandleSpawn(id, outcome)
    \/ \E throws \in BOOLEAN : MainHandleKill(throws)
    \/ MainHandlePause
    \/ MainHandleResume
    \/ StoreReply

SpecStore == Init /\ [][NextStore]_vars

\* The same with the clock running and the Watchdog timer firing
NextStall ==
    \/ \E id \in StoreAgentIds, text \in ChunkTexts : PtyData(id, text, MaxStallChunks)
    \/ \E id \in StoreAgentIds, code \in ExitCodes : PtyExit(id, code)
    \/ FlushTick
    \/ CheckHealthTick
    \/ ClockTick
    \/ StoreSpawnAgentBegin
    \/ \E id \in StoreOpIds : StoreKillAgentBegin(id)
    \/ \E id \in StoreOpIds : StorePauseAgentBegin(id)
    \/ \E id \in StoreOpIds : StoreResumeAgentBegin(id)
    \/ \E id \in StoreAgentIds, outcome \in {"ok", "noscript", "throw"} : MainHandleSpawn(id, outcome)
    \/ \E throws \in BOOLEAN : MainHandleKill(throws)
    \/ MainHandlePause
    \/ MainHandleResume
    \/ StoreReply

SpecStall == Init /\ [][NextStall]_vars

----------------------------------------------------------------------------
\* The Supervisor up to the closing of the last window, and after it (the
\* application goes on without a window on macOS).  The Watchdog timer is
\* left out: healthMonitor.stop() clears it.

\* app.on('window-all-closed'): agentManager.stop(), resourceMonitor.clear(),
\* healthMonitor.stop()
WindowAllClosed(throws) ==
    /\ MainStep([stop(MainState, throws) EXCEPT !.trackedPids = {}])
    /\ proc' = [id \in AllIds |->
                  IF MapHas(ptyProcesses, id) /\ id \notin throws /\ proc[id] = "running"
                  THEN "killed" ELSE proc[id]]
    /\ ret' = Returned("stop", Undefined, Ok)
    /\ UNCHANGED <<emittedChunks, now, agentCounter, calls>>

NextShutdown ==
    \/ \E id \in AgentIds : PtyData(id, {}, MaxChunks)
    \/ \E id \in AgentIds, code \in ExitCodes : PtyExit(id, code)
    \/ FlushTick
    \/ \E id \in SpawnIds : SpawnAgent(id, "ok")
    \/ \E id \in AgentIds, throws \in BOOLEAN : KillAgent(id, throws)
    \/ \E id \in AgentIds : PauseAgent(id)
    \/ \E id \in {i \in AgentIds : MapHas(ptyProcesses, i)}, tags \in SUBSET Tags : SetTags(id, tags)
    \/ \E throws \in SUBSET SpawnIds : WindowAllClosed(throws)

SpecShutdown == Init /\ [][NextShutdown]_vars

----------------------------------------------------------------------------
\* The consumer store sending commands: sessions are spawned, paused and
\* sent commands, and the echo of the process comes back as output

NextSend ==
    \/ \E id \in StoreAgentIds : PtyData(id, {}, MaxStallChunks)
    \/ FlushTick
    \/ StoreSpawnAgentBegin
    \/ \E id \in StoreOpIds : StorePauseAgentBegin(id)
    \/ \E id \in StoreOpIds, text \in Commands : StoreSendCommandBegin(id, text)
    \/ \E id \in StoreAgentIds, outcome \in {"ok", "throw"} : MainHandleSpawn(id, outcome)
    \/ MainHandlePause
    \/ \E throws \in BOOLEAN, rejects \in BOOLEAN : MainHandleSendCommand(throws, rejects)
    \/ StoreReply

SpecSend == Init /\ [][NextSend]_vars

----------------------------------------------------------------------------
\* The Health Watchdog alone (HealthMonitor, started), driven through its
\* public methods as its unit tests drive it

WatchStatuses == {"IDLE", "WORKING", "THINKING", "PAUSED"}

\* what a Watchdog method leaves in ret: `before` is getHealth(agentId) as it
\* was when the method was called
WatchReturned(op, agentId) ==
    [op |-> op, agentId |-> agentId, success |-> TRUE, error |-> Undefined,
     before |-> getHealth(MainState, agentId)]

WatchRecordActivity(agentId, status) ==
    /\ MainStep(recordActivity(MainState, agentId, status))
    /\ ret' = WatchReturned("recordActivity", agentId)
    /\ UNCHANGED <<envVars, agentCounter, calls>>

WatchUpdateStatus(agentId, status) ==
    /\ MainStep(updateStatus(MainState, agentId, status))
    /\ ret' = WatchReturned("updateStatus", agentId)
    /\ UNCHANGED <<envVars, agentCounter, calls>>

WatchUntrack(agentId) ==
    /\ MainStep(untrack(MainState, agentId))
    /\ ret' = WatchReturned("untrack", agentId)
    /\ UNCHANGED <<envVars, agentCounter, calls>>

NextWatchdog ==
    \/ \E id \in AgentIds, status \in WatchStatuses \cup {Undefined} : WatchRecordActivity(id, status)
    \/ \E id \in AgentIds, status \in WatchStatuses : WatchUpdateStatus(id, status)
    \/ \E id \in AgentIds : WatchUntrack(id)
    \/ ClockTick
    \/ CheckHealthTick

SpecWatchdog == Init /\ [][NextWatchdog]_vars

----------------------------------------------------------------------------
\* The Output Batcher alone (OutputThrottler, constructed), driven through its
\* public methods and its timer; the flush callback throws for the ids of
\* `throws`

\* what a Batcher method leaves in ret; success is FALSE when an exception
\* came out of the method
BatchReturned(op, agentId, throws, s) ==
    [op |-> op, agentId |-> agentId, success |-> ~s.thrown,
     error |-> IF s.thrown THEN "threw" ELSE Undefined, throws |-> throws]

BatchPush(agentId) ==
    /\ TotalChunks < MaxChunks
    /\ LET data == << [n |-> emittedChunks[agentId] + 1, text |-> {}] >>
           s == push(MainState, agentId, data)
       IN  MainStep(s) /\ ret' = BatchReturned("push", agentId, {}, s)
    /\ emittedChunks' = [emittedChunks EXCEPT ![agentId] = @ + 1]
    /\ UNCHANGED <<proc, now, agentCounter, calls>>

\* the setInterval callback of start()
BatchTick(throws) ==
    /\ isRunning
    /\ LET s == flush([MainState EXCEPT !.sinkThrows = throws])
       IN  MainStep(s) /\ ret' = BatchReturned("flush", Undefined, throws, s)
    /\ UNCHANGED <<envVars, agentCounter, calls>>

BatchFlushAgent(agentId, throws) ==
    /\ LET s == flushAgent([MainState EXCEPT !.sinkThrows = throws], agentId)
       IN  MainStep(s) /\ ret' = BatchReturned("flushAgent", agentId, throws, s)
    /\ UNCHANGED <<envVars, agentCounter, calls>>

BatchRemoveAgent(agentId) ==
    /\ LET s == throttlerRemoveAgent(MainState, agentId)
       IN  MainStep(s) /\ ret' = BatchReturned("removeAgent", agentId, {}, s)
    /\ UNCHANGED <<envVars, agentCounter, calls>>

BatchStop(throws) ==
    /\ LET s == throttlerStop([MainState EXCEPT !.sinkThrows = throws])
       IN  MainStep(s) /\ ret' = BatchReturned("stop", Undefined, throws, s)
    /\ UNCHANGED <<envVars, agentCounter, calls>>

NextBatcher ==
    \/ \E id \in AgentIds : BatchPush(id)
    \/ \E throws \in SUBSET AgentIds : BatchTick(throws)
    \/ \E id \in AgentIds, throws \in SUBSET AgentIds : BatchFlushAgent(id, throws)
    \/ \E id \in AgentIds : BatchRemoveAgent(id)
    \/ \E throws \in SUBSET AgentIds : BatchStop(throws)

SpecBatcher == Init /\ [][NextBatcher]_vars

----------------------------------------------------------------------------
\* The Classification Engine alone (ConfigLoader): its configuration is
\* reloaded from files, and detectState is called on lines

AgentTypes == {"claude", "custom", "mytool", "unknown"}

Reload(file) ==
    /\ LET r == load(parsers, stateMapping, file)
       IN  parsers' = r.parsers /\ stateMapping' = r.stateMapping
    /\ ret' = [op |-> "reload", agentId |-> Undefined, success |-> TRUE, error |-> Undefined,
               file |-> file]
    /\ UNCHANGED <<mgrVars, monVars, envVars, storeVars, emitted, sinkCalls, written,
                   stallCalls, delivered, pauseCycle>>

DetectState(agentType, output) ==
    /\ MainStep(MainState)
    /\ ret' = [op |-> "detectState", agentId |-> Undefined, success |-> TRUE,
               error |-> Undefined, agentType |-> agentType, output |-> output,
               result |-> ConfigLoader_detectState(parsers, stateMapping, agentType, output)]
    /\ UNCHANGED <<envVars, agentCounter, calls>>

NextClassify ==
    \/ \E file \in {<<>>} \cup {<<c>> : c \in ConfigFiles} : Reload(file)
    \/ \E agentType \in AgentTypes, output \in SUBSET PatternType :
          DetectState(agentType, output)

SpecClassify == Init /\ [][NextClassify]_vars

----------------------------------------------------------------------------
\* The Broadcast Coordinator alone (BroadcastManager): tags are set and
\* removed, and prepareBroadcast is called as its unit tests call it

TaggedIds == {"a1", "a2", "a3"}

BroadcastTags == {"t1", "t2"}

\* allAgentIds: lists of distinct ids, as Array.from(ptyProcesses.keys()) is
AllIdLists ==
    {<<>>, <<"a1", "a2", "a3", "a4">>, <<"a4", "a2", "a1">>, <<"a3", "a1">>, <<"a2", "a4">>}

TagOptions == {<<>>, <<{}>>, <<{"t1"}>>, <<{"t1", "t2"}>>}

Template == <<Lit("copy"), Ph("f"), Lit("to"), Ph("g"), Ph("f")>>

\* options.variables: omitted, or the entries <<varName, values>>
VariableOptions ==
    {<<>>,
     << <<>> >>,
     << << <<"f", << <<Lit("0")>>, <<Lit("1")>> >> >> >> >>,
     << << <<"f", <<>> >> >> >>,
     << << <<"f", << <<Lit("0")>>, <<Lit("1")>>, <<Lit("2")>> >> >>,
           <<"g", << <<Lit("x")>> >> >> >> >>,
     << << <<"f", << <<>>, <<Lit("1")>> >> >> >> >>,
     << << <<"f", << <<Lit("$$"), Lit("0")>>, <<Lit("1"), Lit("$&")>> >> >>,
           <<"g", << <<Lit("$`")>>, <<Lit("$'")>> >> >> >> >>,
     << << <<"f", << <<Ph("g")>> >> >>,
           <<"g", << <<Lit("x")>>, <<Lit("y")>> >> >> >> >>}

\* the calls of prepareBroadcast: every choice of tags on every list without
\* variables, and every choice of variables on the longer lists
BroadcastCalls ==
    {[options |-> [tags |-> tags, template |-> Template, variables |-> <<>>],
      allAgentIds |-> allAgentIds] : tags \in TagOptions, allAgentIds \in AllIdLists}
    \cup
    {[options |-> [tags |-> tags, template |-> Template, variables |-> variables],
      allAgentIds |-> allAgentIds] :
        tags \in {<<>>, <<{"t1"}>>}, variables \in VariableOptions \ {<<>>},
        allAgentIds \in {<<"a1", "a2", "a3", "a4">>, <<"a4", "a2", "a1">>}}

BroadcastSetTags(agentId, tags) ==
    /\ MainStep(setTags(MainState, agentId, tags))
    /\ ret' = Returned("setTags", agentId, Ok)
    /\ UNCHANGED <<envVars, agentCounter, calls>>

BroadcastRemoveAgent(agentId) ==
    /\ MainStep(broadcastRemoveAgent(MainState, agentId))
    /\ ret' = Returned("removeAgent", agentId, Ok)
    /\ UNCHANGED <<envVars, agentCounter, calls>>

PrepareBroadcast(options, allAgentIds) ==
    /\ MainStep(MainState)
    /\ ret' = [op |-> "prepareBroadcast", agentId |-> Undefined, success |-> TRUE,
               error |-> Undefined, options |-> options, allAgentIds |-> allAgentIds,
               result |-> prepareBroadcast(MainState, options, allAgentIds)]
    /\ UNCHANGED <<envVars, agentCounter, calls>>

NextBroadcast ==
    \/ \E id \in TaggedIds, tags \in SUBSET BroadcastTags : BroadcastSetTags(id, tags)
    \/ \E id \in TaggedIds : BroadcastRemoveAgent(id)
    \/ \E call \in BroadcastCalls : PrepareBroadcast(call.options, call.allAgentIds)

SpecBroadcast == Init /\ [][NextBroadcast]_vars

----------------------------------------------------------------------------
\* The Supervisor with a fleet of sessions that print nothing: spawn, pause,
\* resume, kill, exit, setTags and broadcast over IPC

\* the payloads of broadcast: to all, by tag, and to all with a variable
Payloads ==
    {[tags |-> <<>>, template |-> <<Lit("run"), Ph("f")>>, variables |-> <<>>],
     [tags |-> <<{"t1"}>>, template |-> <<Lit("run"), Ph("f")>>, variables |-> <<>>],
     [tags |-> <<>>, template |-> <<Lit("run"), Ph("f")>>,
      variables |-> << << <<"f", << <<Lit("0")>>, <<Lit("1")>> >> >> >> >>]}

\* the ids whose write throws during a broadcast
ThrowSets == {{}, {"a1"}}

BroadcastCommand(payload, throws) ==
    /\ LET r == broadcastCommand(MainState, payload, throws)
       IN  /\ MainStep(r.s)
           /\ ret' = [op |-> "broadcast", agentId |-> Undefined,
                      success |-> r.result.success, error |-> Undefined,
                      sentTo |-> r.result.sentTo, errors |-> r.result.errors,
                      payload |-> payload, throws |-> throws]
    /\ UNCHANGED <<envVars, agentCounter, calls>>

NextFleet ==
    \/ \E i \in 1..Len(FleetOrder), outcome \in {"ok", "noscript", "throw"} :
          /\ \A j \in 1..(i - 1) : proc[FleetOrder[j]] # "none"
          /\ SpawnAgent(FleetOrder[i], outcome)
    \/ \E id \in FleetIds : PtyExit(id, 0)
    \/ \E id \in FleetIds, throws \in BOOLEAN : KillAgent(id, throws)
    \/ \E id \in FleetIds : PauseAgent(id)
    \/ \E id \in FleetIds : ResumeAgent(id)
    \/ \E id \in FleetIds : SetTags(id, {"t1"})
    \/ \E payload \in Payloads, throws \in ThrowSets : BroadcastCommand(payload, throws)

SpecFleet == Init /\ [][NextFleet]_vars

----------------------------------------------------------------------------
\* The IPC handlers of the main process (electron/main.ts) in front of the
\* Supervisor.  What a request carries as id or as tag is known by its shape:
\* whether it is a string, its length, and the kinds of characters in it.

Shape(string, length, chars) == [string |-> string, length |-> length, chars |-> chars]

\* the ids a request can carry: the id of a session, an id with an
\* underscore, the empty string, an id with another character, an id of 65
\* letters, and a number
IdShapes ==
    [id \in {"a1", "a_b", "", "a!b", "long65", "#7"} |->
        CASE id = "a1" -> Shape(TRUE, 2, {"letter", "digit"})
          [] id = "a_b" -> Shape(TRUE, 3, {"letter", "underscore"})
          [] id = "" -> Shape(TRUE, 0, {})
          [] id = "a!b" -> Shape(TRUE, 3, {"letter", "other"})
          [] id = "long65" -> Shape(TRUE, 65, {"letter"})
          [] id = "#7" -> Shape(FALSE, 0, {})]

RequestIds == DOMAIN IdShapes

\* the tags a request can carry
TagShapes ==
    [tag \in {"t1", "t_1", "t 1", "", "long33"} |->
        CASE tag = "t1" -> Shape(TRUE, 2, {"letter", "digit"})
          [] tag = "t_1" -> Shape(TRUE, 3, {"letter", "digit", "underscore"})
          [] tag = "t 1" -> Shape(TRUE, 3, {"letter", "digit", "other"})
          [] tag = "" -> Shape(TRUE, 0, {})
          [] tag = "long33" -> Shape(TRUE, 33, {"letter"})]

\* a `tags` argument: whether it is an array, its length, and its elements
TagList(isArray, length, tags) == [isArray |-> isArray, length |-> length, tags |-> tags]

NoTags == TagList(TRUE, 0, {})

RequestTags ==
    {NoTags, TagList(TRUE, 1, {"t1"}), TagList(TRUE, 1, {"t_1"}), TagList(TRUE, 2, {"t1", "t 1"}),
     TagList(TRUE, 1, {""}), TagList(TRUE, 1, {"long33"}), TagList(TRUE, 51, {"t1"}),
     TagList(FALSE, 0, {})}

\* /^[a-zA-Z0-9_-]+$/.test(x)
wordPattern(shape) ==
    shape.length > 0 /\ shape.chars \subseteq {"letter", "digit", "underscore", "hyphen"}

\* AgentManager.isValidAgentId
isValidAgentId(id) ==
    /\ IdShapes[id].string
    /\ IdShapes[id].length > 0
    /\ IdShapes[id].length <= 64
    /\ wordPattern(IdShapes[id])

\* AgentManager.isValidTags
isValidTags(tags) ==
    /\ tags.isArray
    /\ tags.length <= 50
    /\ \A tag \in tags.tags :
          /\ TagShapes[tag].string
          /\ TagShapes[tag].length > 0
          /\ TagShapes[tag].length <= 32
          /\ wordPattern(TagShapes[tag])

\* what a handler leaves in ret: the id and the tags of the request, what it
\* returned (success is FALSE for a {success: false} result and TRUE for
\* anything else), and whether it called the Supervisor
IpcReturned(op, id, tags, result, reached) ==
    [op |-> op, agentId |-> id, success |-> result.success, error |-> result.error,
     tags |-> tags, reached |-> reached]

\* a handler of the shape
\*   if (!agentManager.isValidAgentId(id)) return { success: false, error: 'Invalid ID' };
\*   return agentManager.op(id, ...);
\* r is what the operation does and returns
IpcIdHandler(op, id, r) ==
    IF ~isValidAgentId(id)
    THEN MainStep(MainState) /\ ret' = IpcReturned(op, id, NoTags, Fail("Invalid ID"), FALSE)
    ELSE MainStep(r.s) /\ ret' = IpcReturned(op, id, NoTags, r.result, TRUE)

IpcResizeTerminal(id, throws) ==
    /\ IpcIdHandler("ipc.resize", id, resizeTerminal(MainState, id, throws))
    /\ UNCHANGED <<envVars, agentCounter, calls>>

IpcSendCommand(id, command, throws) ==
    /\ IpcIdHandler("ipc.sendCommand", id, sendCommand(MainState, id, command, throws))
    /\ UNCHANGED <<envVars, agentCounter, calls>>

IpcKillAgent(id, throws) ==
    /\ IpcIdHandler("ipc.kill", id, killAgent(MainState, id, throws))
    /\ proc' = IF isValidAgentId(id) /\ killAgent(MainState, id, throws).result.success
                  /\ proc[id] = "running"
               THEN [proc EXCEPT ![id] = "killed"] ELSE proc
    /\ UNCHANGED <<emittedChunks, now, agentCounter, calls>>

IpcPauseAgent(id) ==
    /\ IpcIdHandler("ipc.pause", id, pauseAgent(MainState, id))
    /\ UNCHANGED <<envVars, agentCounter, calls>>

IpcResumeAgent(id) ==
    /\ IpcIdHandler("ipc.resume", id, resumeAgent(MainState, id))
    /\ UNCHANGED <<envVars, agentCounter, calls>>

\* SET_AGENT_TAGS
IpcSetTags(id, tags) ==
    /\ IF ~isValidAgentId(id)
       THEN MainStep(MainState)
            /\ ret' = IpcReturned("ipc.setTags", id, tags, Fail("Invalid ID"), FALSE)
       ELSE IF ~isValidTags(tags)
       THEN MainStep(MainState)
            /\ ret' = IpcReturned("ipc.setTags", id, tags, Fail("Invalid Tags"), FALSE)
       ELSE MainStep(setTags(MainState, id, tags.tags))
            /\ ret' = IpcReturned("ipc.setTags", id, tags, Ok, TRUE)
    /\ UNCHANGED <<envVars, agentCounter, calls>>

\* GET_AGENT_TAGS: agentManager.getTags(id as string), an array
IpcGetTags(id) ==
    /\ MainStep(MainState)
    /\ ret' = [IpcReturned("ipc.getTags", id, NoTags, Ok, TRUE)
                  EXCEPT !.error = getTags(MainState, id)]
    /\ UNCHANGED <<envVars, agentCounter, calls>>

\* BROADCAST_COMMAND: agentManager.broadcastCommand(payload); tags is an array
IpcBroadcastCommand(tags, throws) ==
    /\ LET payload == [tags |-> <<tags.tags>>, template |-> <<Lit("run")>>, variables |-> <<>>]
           r == broadcastCommand(MainState, payload, throws)
       IN  /\ MainStep(r.s)
           /\ ret' = IpcReturned("ipc.broadcast", Undefined, tags,
                                 [success |-> r.result.success, error |-> Undefined], TRUE)
    /\ UNCHANGED <<envVars, agentCounter, calls>>

NextIpc ==
    \/ \E id \in SpawnIds : SpawnAgent(id, "ok")
    \/ \E id \in RequestIds, throws \in BOOLEAN : IpcResizeTerminal(id, throws)
    \/ \E id \in RequestIds, c \in Commands, throws \in BOOLEAN : IpcSendCommand(id, c, throws)
    \/ \E id \in RequestIds, throws \in BOOLEAN : IpcKillAgent(id, throws)
    \/ \E id \in RequestIds : IpcPauseAgent(id)
    \/ \E id \in RequestIds : IpcResumeAgent(id)
    \/ \E id \in RequestIds, tags \in RequestTags : IpcSetTags(id, tags)
    \/ \E id \in RequestIds : IpcGetTags(id)
    \/ \E tags \in {t \in RequestTags : t.isArray}, throws \in {{}, {"a1"}} :
          IpcBroadcastCommand(tags, throws)

SpecIpc == Init /\ [][NextIpc]_vars

----------------------------------------------------------------------------
\* Properties

Paused(id) == id \in DOMAIN pausedAgents

Live(id) == MapHas(ptyProcesses, id)

\* the trackers the Supervisor keeps per session
Trackers(s) ==
    <<s.ptyProcesses, s.agentMetadata, s.buffer, s.lastActivity, s.agentStatuses,
      s.agentTags, s.pausedAgents, s.pausedOutputBuffers, s.trackedPids>>

Numbers(string) == [i \in 1..Len(string) |-> string[i].n]

SideBuffer(id) == IF id \in DOMAIN pausedOutputBuffers THEN pausedOutputBuffers[id] ELSE <<>>

Batched(id) == IF MapHas(buffer, id) THEN Join(MapGet(buffer, id)) ELSE <<>>

StatusChanges(events, id) ==
    {i \in 1..Len(events) : events[i].type = "agent:status-change" /\ events[i].agentId = id}

\* C1: after kill(id) returns success, id has no entry in the session table,
\* the Batcher (buffer size 0), the Watchdog tables (lookup null), the tag
\* registry (getTags empty), the paused set or the pause side buffer.
C1_KillReleasesAllTrackers ==
    (ret.op = "kill" /\ ret.success) =>
        LET id == ret.agentId
        IN  /\ ~MapHas(ptyProcesses, id)
            /\ id \notin agentMetadata
            /\ ~MapHas(buffer, id)
            /\ getBufferSize(MainState, id) = 0
            /\ ~MapHas(lastActivity, id)
            /\ id \notin DOMAIN agentStatuses
            /\ id \notin DOMAIN agentTags
            /\ getTags(MainState, id) = {}
            /\ id \notin DOMAIN pausedAgents
            /\ id \notin DOMAIN pausedOutputBuffers

\* a kill that succeeded on a session none of whose two or more chunks had
\* reached the sink: they were in the Batcher or in the side buffer
C1_Witness ==
    /\ ret.op = "kill" /\ ret.success
    /\ emittedChunks[ret.agentId] >= 2
    /\ delivered[ret.agentId] = <<>>

\* C2: the process exiting on its own leaves the trackers exactly as a
\* successful kill from the same state would.
C2_ExitCleansUpLikeKill ==
    [][(ret'.op = "onExit" /\ Live(ret'.agentId)) =>
         Trackers(MainState)' = Trackers(cleanupAgent(MainState, ret'.agentId))]_vars

\* an exit of a live session that still had chunks in the Batcher
C2_Witness ==
    /\ ret.op = "onExit"
    /\ sinkCalls # <<>>
    /\ proc[ret.agentId] = "exited"
    /\ ~Live(ret.agentId)

\* C3: the status-change notification resume(id) emits carries the status
\* the session held immediately before the matching pause.
C3_ResumeNotifiesPrePauseStatus ==
    (ret.op = "resume" /\ ret.success /\ ret.agentId \in DOMAIN pauseCycle) =>
        \A i \in StatusChanges(emitted, ret.agentId) :
            emitted[i].status = pauseCycle[ret.agentId]

\* C4: in the store, pauseAgent then resumeAgent, both successful and with no
\* output or stall reaching the store in between, leaves the status the
\* session had before the pause (PAUSED once the pause has returned) and
\* removes the saved pre-pause entry.
C4_StoreResumeRestoresStatus ==
    /\ (ret.op = "store.pauseAgent" /\ ret.error = "returned" /\ ret.success
          /\ ret.agentId \in DOMAIN agents)
        => agents[ret.agentId].status = "PAUSED"
    /\ (ret.op = "store.resumeAgent" /\ ret.error = "returned" /\ ret.success
          /\ ret.agentId \in DOMAIN pauseCycle)
        => /\ ret.agentId \in DOMAIN agents
           /\ agents[ret.agentId].status = pauseCycle[ret.agentId]
           /\ agents[ret.agentId].status # "PAUSED"
           /\ ret.agentId \notin DOMAIN pausedPreviousStatus

\* a resumeAgent that returned true after an undisturbed pause from THINKING
C4_Witness ==
    /\ ret.op = "store.resumeAgent" /\ ret.error = "returned" /\ ret.success
    /\ ret.agentId \in DOMAIN pauseCycle
    /\ pauseCycle[ret.agentId] = "THINKING"

\* C5: while id is paused the sink receives no output batch for id.
C5_NoOutputWhilePaused ==
    \A i \in 1..Len(sinkCalls) : ~Paused(sinkCalls[i].agentId)

C7_DeliveredInOrder ==
    \A id \in AgentIds : \A i \in 1..Len(delivered[id]) : delivered[id][i].n = i

\* a tick that delivers the last chunks of a session that was paused and resumed
C7_Witness ==
    \E id \in AgentIds :
        /\ ret.op = "flush"
        /\ \E i \in 1..Len(sinkCalls) : sinkCalls[i].agentId = id /\ Len(sinkCalls[i].data) >= 2
        /\ Len(delivered[id]) = MaxChunks
        /\ FnGet(agentStatuses, id) = "WORKING"

\* C8: sendCommand on a paused session fails with the paused error and
\* writes nothing; on a session that is not paused it never fails that way.
C8_SendCommandRejectedWhilePaused ==
    ret.op = "sendCommand" =>
        /\ Paused(ret.agentId) =>
              /\ ~ret.success
              /\ ret.error = "Agent is paused"
              /\ written = <<>>
        /\ ~Paused(ret.agentId) => ret.error # "Agent is paused"
        /\ (Live(ret.agentId) /\ ~Paused(ret.agentId) /\ ret.error # "threw") =>
              /\ ret.success
              /\ written = << [agentId |-> ret.agentId, data |-> "cmd"] >>

\* a sendCommand refused on a paused session
C8_Witness ==
    /\ ret.op = "sendCommand"
    /\ Paused(ret.agentId)
    /\ ret.error = "Agent is paused"

\* C9: pause on a session that is already paused returns success, emits
\* nothing and changes nothing in the Supervisor or its trackers.
C9_PauseIdempotent ==
    [][(ret'.op = "pause" /\ Paused(ret'.agentId)) =>
         /\ ret'.success
         /\ emitted' = <<>>
         /\ UNCHANGED <<mgrVars, monVars>>]_vars

\* a second pause, later than the first, of a session with buffered output
C9_Witness ==
    /\ ret.op = "pause" /\ ret.success
    /\ emitted = <<>>
    /\ mainWindow
    /\ Paused(ret.agentId)
    /\ MapGet(lastActivity, ret.agentId) < now
    /\ SideBuffer(ret.agentId) # <<>>

\* C10: resume on a live session that is not paused returns success, emits
\* nothing and changes nothing in the Supervisor or its trackers.
C10_ResumeIdempotent ==
    [][(ret'.op = "resume" /\ Live(ret'.agentId) /\ ~Paused(ret'.agentId)) =>
         /\ ret'.success
         /\ emitted' = <<>>
         /\ UNCHANGED <<mgrVars, monVars>>]_vars

\* a resume, later than the last activity, of a live session that is not paused
C10_Witness ==
    /\ ret.op = "resume" /\ ret.success
    /\ emitted = <<>>
    /\ mainWindow
    /\ Live(ret.agentId)
    /\ ~Paused(ret.agentId)
    /\ MapGet(lastActivity, ret.agentId) < now
    /\ FnGet(agentStatuses, ret.agentId) = "WORKING"

Busy(status) == status = "WORKING" \/ status = "THINKING"

\* C11: the stall callback is never raised for a session whose current status
\* (the one the store shows) is not WORKING or THINKING; a session shown
\* STALLED was reported already and may be reported again.
C11_NoStallWhileIdle ==
    [][\A i \in 1..Len(stallCalls') :
         stallCalls'[i].agentId \in DOMAIN agents =>
            \/ Busy(agents[stallCalls'[i].agentId].status)
            \/ agents[stallCalls'[i].agentId].status = "STALLED"]_vars

\* how many times the stall callback was invoked for id in the last step
StallCount(id) == Cardinality({i \in 1..Len(stallCalls) : stallCalls[i].agentId = id})

\* id is recorded busy and its last activity is older than the stall timeout
Stalled(id) ==
    /\ MapHas(lastActivity, id)
    /\ Busy(FnGet(agentStatuses, id))
    /\ now - MapGet(lastActivity, id) > stallTimeout

\* C12: a watchdog tick invokes the stall callback exactly once, with the id
\* and the time since its last activity, for every session recorded WORKING
\* or THINKING whose inactivity exceeds the stall timeout (so again at every
\* later tick while it stays so), and not at all for any other session; the
\* callback is invoked by nothing else.
C12_StallOncePerTick ==
    /\ ret.op = "checkHealth" =>
          /\ \A id \in AgentIds : StallCount(id) = IF Stalled(id) THEN 1 ELSE 0
          /\ \A i \in 1..Len(stallCalls) :
                stallCalls[i].duration = now - MapGet(lastActivity, stallCalls[i].agentId)
    /\ ret.op # "checkHealth" => stallCalls = <<>>

\* a tick that reports a stalled THINKING session and passes over a WORKING
\* session that is under the timeout
C12_Witness ==
    /\ ret.op = "checkHealth"
    /\ \E id \in AgentIds : FnGet(agentStatuses, id) = "THINKING" /\ StallCount(id) = 1
    /\ \E id \in AgentIds :
          /\ FnGet(agentStatuses, id) = "WORKING"
          /\ MapHas(lastActivity, id)
          /\ StallCount(id) = 0

\* C13: updateStatus(id, s) with s neither WORKING nor THINKING leaves id's
\* last-activity timestamp at now, so that getHealth reports stall duration 0.
C13_UpdateStatusResetsTimestamp ==
    (ret.op = "updateStatus" /\ ~Busy(FnGet(agentStatuses, ret.agentId))) =>
        /\ MapHas(lastActivity, ret.agentId)
        /\ MapGet(lastActivity, ret.agentId) = now
        /\ getHealth(MainState, ret.agentId) # <<>>
        /\ getHealth(MainState, ret.agentId)[1].stallDuration = 0
        /\ ~getHealth(MainState, ret.agentId)[1].isStalled

\* an updateStatus to IDLE of a session that was stalled when it was called
C13_Witness ==
    /\ ret.op = "updateStatus"
    /\ FnGet(agentStatuses, ret.agentId) = "IDLE"
    /\ ret.before # <<>>
    /\ ret.before[1].isStalled
    /\ MapGet(lastActivity, ret.agentId) = now

\* the sink invocations of the last step that were for id
SinkCallsFor(id) == {i \in 1..Len(sinkCalls) : sinkCalls[i].agentId = id}

\* the chunks of id are in the order they were pushed
InPushOrder(data) == \A k \in 1..(Len(data) - 1) : data[k].n < data[k + 1].n

\* every id with buffered chunks gets one invocation carrying all of them in
\* push order, every other id gets none, and every buffer entry is left empty
FlushedAll ==
    \A id \in AgentIds :
        /\ Batched(id) # <<>> =>
              /\ Cardinality(SinkCallsFor(id)') = 1
              /\ \A i \in SinkCallsFor(id)' :
                    /\ sinkCalls'[i].data = Batched(id)
                    /\ Len(sinkCalls'[i].data) = Len(MapGet(buffer, id))
                    /\ InPushOrder(sinkCalls'[i].data)
        /\ Batched(id) = <<>> => SinkCallsFor(id)' = {}
        /\ Batched(id)' = <<>>

\* C14: a batch tick invokes the sink exactly once for every id whose buffer
\* is non-empty, with the concatenation of its chunks in push order, and
\* empties the buffer; ids with an empty buffer get no invocation.
C14_TickDeliversOneBatchPerId ==
    [][ret'.op = "flush" =>
         /\ FlushedAll
         /\ \A id \in AgentIds : MapHas(buffer, id) =>
               MapHas(buffer', id) /\ MapGet(buffer', id) = <<>>]_vars

\* a tick that hands two chunks pushed for one id to the sink as one batch
\* and invokes nothing for the other id, whose buffer was empty
C14_Witness ==
    /\ ret.op = "flush"
    /\ Len(sinkCalls) = 1
    /\ Len(sinkCalls[1].data) = 2
    /\ Len(buffer) = 2

\* C15: when the sink throws for an id during a tick, no exception comes out
\* of the flush, every id with buffered chunks still gets its invocation in
\* that tick, and the timer stays set.
C15_SinkErrorContained ==
    [][(ret'.op = "flush" /\ ret'.throws # {}) =>
         /\ ret'.success
         /\ FlushedAll
         /\ isRunning']_vars

\* a tick in which the sink threw for the first id and the second id still
\* got its batch
C15_Witness ==
    /\ ret.op = "flush"
    /\ Len(sinkCalls) = 2
    /\ sinkCalls[1].agentId \in ret.throws
    /\ sinkCalls[2].agentId \notin ret.throws
    /\ ret.success
    /\ isRunning

\* C16: stop() hands every chunk still buffered to the sink in one final
\* flush, leaves no buffer and cancels the timer; once stopped, the timer
\* never flushes again.
C16_StopFlushesEverything ==
    [][/\ ret'.op = "stop" =>
             /\ FlushedAll
             /\ buffer' = <<>>
             /\ ~isRunning'
       /\ ~isRunning => (~isRunning' /\ ret'.op # "flush")]_vars

\* a stop that delivered the buffered chunks of two ids
C16_Witness ==
    /\ ret.op = "stop"
    /\ Len(sinkCalls) = 2
    /\ sinkCalls[1].agentId # sinkCalls[2].agentId
    /\ buffer = <<>>
    /\ ~isRunning

\* the chunks of id that were pushed and are neither delivered nor buffered
Discarded(id) ==
    {n \in 1..emittedChunks[id] :
        /\ \A i \in 1..Len(delivered[id]) : delivered[id][i].n # n
        /\ \A i \in 1..Len(Batched(id)) : Batched(id)[i].n # n}

\* C17: removeAgent(id) drops id's buffered chunks without invoking the sink
\* and leaves the other buffers as they were; a dropped chunk is never
\* delivered or buffered again.
C17_RemoveAgentDiscards ==
    [][/\ \A rid \in AgentIds : (ret'.op = "removeAgent" /\ ret'.agentId = rid) =>
             /\ sinkCalls' = <<>>
             /\ ~MapHas(buffer', rid)
             /\ Discarded(rid)' = 1..emittedChunks[rid] \
                                     {delivered[rid][i].n : i \in 1..Len(delivered[rid])}
             /\ \A id \in AgentIds \ {rid} :
                   /\ MapHas(buffer', id) = MapHas(buffer, id)
                   /\ MapGet(buffer', id) = MapGet(buffer, id)
       /\ \A id \in AgentIds : Discarded(id) \subseteq Discarded(id)']_vars

\* a tick, later than a removeAgent that dropped a chunk of an id, that
\* delivers a batch to that id and a batch to the other id
C17_Witness ==
    /\ ret.op = "flush"
    /\ Len(sinkCalls) = 2
    /\ \E i \in 1..Len(sinkCalls) : Discarded(sinkCalls[i].agentId) # {}

\* the kinds, in the order error, waiting, thinking, tool_use, reading,
\* searching, whose pattern the parser of agentType has and the line matches
MatchingKinds(agentType, output) ==
    LET order == <<"error", "waiting", "thinking", "tool_use", "reading", "searching">>
    IN  SelectSeq(order, LAMBDA k : k \in parsers[agentType] /\ k \in output)

\* C18: detectState returns the mapped status of the first kind, in the
\* order error, waiting, thinking, tool_use, reading, searching, whose
\* pattern matches the line; a line matching the error and the thinking
\* pattern gets the status of error (ERROR unless the configuration maps it
\* elsewhere); it returns none when nothing matches or the type is unknown.
C18_ClassifyPriority ==
    ret.op = "detectState" =>
        IF ret.agentType \notin DOMAIN parsers THEN ret.result = Undefined
        ELSE LET m == MatchingKinds(ret.agentType, ret.output)
             IN  /\ m = <<>> => ret.result = Undefined
                 /\ m # <<>> => ret.result = stateMapping[m[1]]
                 /\ ({"error", "thinking"} \subseteq ret.output \cap parsers[ret.agentType]) =>
                       /\ ret.result = stateMapping["error"]
                       /\ stateMapping = defaultStateMapping => ret.result = "ERROR"

\* a line with an error, a thinking and a tool_use match that classifies ERROR
C18_Witness ==
    /\ ret.op = "detectState"
    /\ ret.agentType \in DOMAIN parsers
    /\ {"error", "thinking", "tool_use"} \subseteq ret.output \cap parsers[ret.agentType]
    /\ ret.result = "ERROR"

\* the agent:update events of the last step, for id, that carry a line with
\* both an error and a thinking indicator
ErrorAndThinkingUpdates(id) ==
    {i \in 1..Len(emitted) :
        /\ emitted[i].type = "agent:update"
        /\ emitted[i].agentId = id
        /\ \E k \in 1..Len(emitted[i].data) : {"Error", "Thinking"} \subseteq emitted[i].data[k].text}

\* C19: when output with a line that matches both an error and a thinking
\* indicator is delivered for a session that is not paused, the session's
\* status in the store becomes ERROR.
C19_ErrorPreemptsThinkingLive ==
    \A id \in StoreAgentIds :
        (ErrorAndThinkingUpdates(id) # {} /\ id \in DOMAIN agents
            /\ agents[id].status # "PAUSED")
        => agents[id].status = "ERROR"

\* the agent:update events of the last step that were for id
UpdatesFor(id) ==
    {i \in 1..Len(emitted) : emitted[i].type = "agent:update" /\ emitted[i].agentId = id}

\* C20: output delivered for a session whose status in the store is PAUSED
\* is appended to its log and leaves the status PAUSED, whatever it
\* classifies to; delivered for a session that is not PAUSED, its
\* classification becomes the status.
C20_PausedStatusNotReclassified ==
    [][\A id \in StoreAgentIds : \A i \in UpdatesFor(id)' :
         id \in DOMAIN agents =>
            /\ id \in DOMAIN agents'
            /\ agents'[id].logs =
                  Append(agents[id].logs, [content |-> emitted'[i].data, type |-> "stdout"])
            /\ agents[id].status = "PAUSED" => agents'[id].status = "PAUSED"
            /\ (agents[id].status # "PAUSED" /\ detectState(emitted'[i].data) # Undefined) =>
                  agents'[id].status = detectState(emitted'[i].data)]_vars

\* output that classifies to THINKING has just been appended to the log of a
\* session that stays PAUSED
C20_Witness ==
    \E id \in StoreAgentIds :
        /\ UpdatesFor(id) # {}
        /\ id \in DOMAIN agents
        /\ agents[id].status = "PAUSED"
        /\ agents[id].logs # <<>>
        /\ detectState(agents[id].logs[Len(agents[id].logs)].content) = "THINKING"

\* some indicator of STATE_PATTERNS occurs in the content
Matches(content) ==
    \E k \in 1..Len(STATE_PATTERNS) : STATE_PATTERNS[k].pattern \in Indicators(content)

\* C21: output in which no pattern matches, delivered for a session, leaves
\* the session's status in the store exactly as it was, whatever it was; when
\* delivered output changes the status, some delivered line matched and the
\* new status is the classification of such a line.
C21_NoMatchKeepsStatus ==
    [][\A id \in StoreAgentIds :
         (UpdatesFor(id)' # {} /\ id \in DOMAIN agents) =>
            /\ id \in DOMAIN agents'
            /\ (\A i \in UpdatesFor(id)' : ~Matches(emitted'[i].data)) =>
                  agents'[id].status = agents[id].status
            /\ agents'[id].status # agents[id].status =>
                  \E i \in UpdatesFor(id)' :
                     /\ Matches(emitted'[i].data)
                     /\ agents'[id].status = detectState(emitted'[i].data)]_vars

\* output without any indicator has just been appended to the log of a
\* session that stays THINKING
C21_Witness ==
    \E id \in StoreAgentIds :
        /\ UpdatesFor(id) # {}
        /\ \A i \in UpdatesFor(id) : ~Matches(emitted[i].data)
        /\ id \in DOMAIN agents
        /\ agents[id].status = "THINKING"
        /\ Len(agents[id].logs) >= 2

SeqToSet(seq) == {seq[i] : i \in 1..Len(seq)}

\* the ids of allAgentIds a broadcast with these tags is to reach
ExpectedTargets(tags, allAgentIds) ==
    IF tags = <<>> \/ tags[1] = {} THEN SeqToSet(allAgentIds)
    ELSE {id \in SeqToSet(allAgentIds) :
             id \in DOMAIN agentTags /\ agentTags[id] \cap tags[1] # {}}

\* C22: the keys of the map prepareBroadcast returns are all of allIds when
\* tags is omitted or empty, and otherwise exactly the ids of allIds whose
\* registered tags share a tag with the given ones: no id without a registry
\* entry, no id outside allIds; every target has one entry.
C22_BroadcastTargets ==
    ret.op = "prepareBroadcast" =>
        /\ MapKeySet(ret.result) = ExpectedTargets(ret.options.tags, ret.allAgentIds)
        /\ Len(ret.result) = Cardinality(MapKeySet(ret.result))
        /\ MapKeySet(ret.result) \subseteq SeqToSet(ret.allAgentIds)

\* a broadcast by tag that reaches one id of allIds and leaves out an id that
\* has no registry entry and an id whose tags do not match, while an id with
\* a matching tag is not in allIds
C22_Witness ==
    /\ ret.op = "prepareBroadcast"
    /\ ret.options.tags = <<{"t1"}>>
    /\ Len(ret.result) = 1
    /\ \E id \in SeqToSet(ret.allAgentIds) : id \notin DOMAIN agentTags
    /\ \E id \in SeqToSet(ret.allAgentIds) :
          id \in DOMAIN agentTags /\ agentTags[id] = {"t2"}
    /\ \E id \in DOMAIN agentTags \ SeqToSet(ret.allAgentIds) : "t1" \in agentTags[id]

\* the targets of the last prepareBroadcast, in the order of allAgentIds
TargetsInOrder == SelectSeq(ret.allAgentIds, LAMBDA id : MapHas(ret.result, id))

\* the value of a variable for the target numbered n from 0: the values are
\* reused cyclically, and an empty list gives the empty string
CycledValue(values, n) == IF values = <<>> THEN <<>> ELSE values[(n % Len(values)) + 1]

\* the command with the placeholders of the variables replaced, one variable
\* after the other, each by its value for the target numbered n
RECURSIVE Substituted(_, _, _)
Substituted(command, variables, n) ==
    IF variables = <<>> THEN command
    ELSE Substituted(replaceFrom(command, Head(variables)[1],
                                 CycledValue(Head(variables)[2], n), 1),
                     Tail(variables), n)

\* no value is or holds a replacement pattern or a placeholder
PlainValues(variables) ==
    \A j \in 1..Len(variables) : \A v \in 1..Len(variables[j][2]) :
        \A i \in 1..Len(variables[j][2][v]) :
            variables[j][2][v][i] \in {Lit("0"), Lit("1"), Lit("2"), Lit("x"), Lit("y")}

\* the values listed for varName, <<>> when it is not a variable
ValuesOf(variables, varName) ==
    IF \E j \in 1..Len(variables) : variables[j][1] = varName
    THEN <<variables[CHOOSE j \in 1..Len(variables) : variables[j][1] = varName][2]>>
    ELSE <<>>

\* the template with every placeholder of a variable replaced by the text of
\* its value for the target numbered n
RECURSIVE FilledIn(_, _, _)
FilledIn(template, variables, n) ==
    IF template = <<>> THEN <<>>
    ELSE LET t == Head(template)
             vs == IF t.k = "ph" THEN ValuesOf(variables, t.v) ELSE <<>>
         IN  (IF vs # <<>> THEN CycledValue(vs[1], n) ELSE <<t>>)
             \o FilledIn(Tail(template), variables, n)

\* C23: the target numbered N from 0, among the targets left after the tag
\* filter and in the order of allIds, gets the template with the placeholder
\* of every variable replaced by values[N mod |values|], and by the empty
\* string when the variable has no values.
C23_VariablesCycle ==
    (ret.op = "prepareBroadcast" /\ ret.options.variables # <<>>) =>
        \A n \in 0..(Len(TargetsInOrder) - 1) :
            LET command == MapGet(ret.result, TargetsInOrder[n + 1])
                variables == ret.options.variables[1]
            IN  /\ command = Substituted(ret.options.template, variables, n)
                /\ PlainValues(variables) =>
                      command = FilledIn(ret.options.template, variables, n)

\* four targets and a list of two values: the targets get the values 0, 1, 0, 1
C23_Witness ==
    /\ ret.op = "prepareBroadcast"
    /\ ret.options.variables = << << <<"f", << <<Lit("0")>>, <<Lit("1")>> >> >> >> >>
    /\ Len(ret.result) = 4
    /\ \A n \in 0..3 :
          ret.result[n + 1][2] =
             <<Lit("copy"), Lit(IF n % 2 = 0 THEN "0" ELSE "1"), Lit("to"), Ph("g"),
               Lit(IF n % 2 = 0 THEN "0" ELSE "1")>>

\* the ids the last broadcast wrote to and the ids it reported in sentTo
WrittenTo == {written[i].agentId : i \in 1..Len(written)}

\* C24: a broadcast reports every target in exactly one of sentTo and errors;
\* sentTo holds exactly the targets whose write succeeded, each once, and
\* they are the only sessions written to, each once; a paused target is in
\* errors and gets no write; success is true iff errors is empty.
C24_BroadcastOutcome ==
    ret.op = "broadcast" =>
        LET targets == ExpectedTargets(ret.payload.tags, MapKeys(ptyProcesses))
            sent == SeqToSet(ret.sentTo)
        IN  /\ sent \cup DOMAIN ret.errors = targets
            /\ sent \cap DOMAIN ret.errors = {}
            /\ sent = {id \in targets : ~Paused(id) /\ id \notin ret.throws}
            /\ Len(ret.sentTo) = Cardinality(sent)
            /\ WrittenTo = sent
            /\ Len(written) = Cardinality(sent)
            /\ \A id \in targets : Paused(id) => ret.errors[id] = "Agent is paused"
            /\ ret.success <=> (DOMAIN ret.errors = {})

\* a broadcast by tag that writes to one target, reports a paused target in
\* errors and leaves a third session, which is not tagged, alone
C24_Witness ==
    /\ ret.op = "broadcast"
    /\ ret.payload.tags # <<>>
    /\ Len(ret.sentTo) = 1
    /\ \E id \in DOMAIN ret.errors : Paused(id)
    /\ \E id \in FleetIds : Live(id) /\ id \notin DOMAIN ret.errors /\ id \notin WrittenTo
    /\ ~ret.success

\* C25: a spawn that fails in the main process (no launch script, or
\* pty.spawn throws) returns a failure result with an error text and
\* registers nothing; when the store gets that result it adds, under the id
\* it returns, a record in ERROR state with one system log line, and no
\* record in IDLE state.
C25_FailedSpawnLeavesErrorRecord ==
    [][/\ (ret'.op = "spawn" /\ ~ret'.success) =>
             /\ ret'.error \in {"noscript", "throw"}
             /\ UNCHANGED <<mgrVars, monVars, agents, pausedPreviousStatus>>
       /\ (ret'.op = "store.spawnAgent" /\ ret'.error = "returned" /\ ~ret'.success) =>
             /\ DOMAIN agents' = DOMAIN agents \cup {ret'.agentId}
             /\ ret'.agentId \notin DOMAIN agents
             /\ agents'[ret'.agentId].status = "ERROR"
             /\ Len(agents'[ret'.agentId].logs) = 1
             /\ agents'[ret'.agentId].logs[1].type = "system"
             /\ \A id \in DOMAIN agents : agents'[id] = agents[id]]_vars

\* the store has just got the failure of its spawn request and shows the
\* error record; the Supervisor has no session
C25_Witness ==
    /\ ret.op = "store.spawnAgent" /\ ret.error = "returned" /\ ~ret.success
    /\ ret.agentId \in DOMAIN agents
    /\ agents[ret.agentId].status = "ERROR"
    /\ ptyProcesses = <<>>

\* the agent:exit events among the events of the last step
ExitEvents == {i \in 1..Len(emitted) : emitted[i].type = "agent:exit"}

\* id has no entry in the session table or in any tracker
Released(id) ==
    /\ ~MapHas(ptyProcesses, id)
    /\ id \notin agentMetadata
    /\ ~MapHas(buffer, id)
    /\ ~MapHas(lastActivity, id)
    /\ id \notin DOMAIN agentStatuses
    /\ id \notin DOMAIN agentTags
    /\ id \notin DOMAIN pausedAgents
    /\ id \notin DOMAIN pausedOutputBuffers
    /\ id \notin trackedPids

\* C26: when a session's process exits, the session is out of the session
\* table and of every tracker, and one agent:exit event with its id and the
\* exit code is sent to the window (none when no window is attached), after
\* everything else the handler sends; no other step sends an agent:exit
\* event, so none is sent for an id that never had a process.
C26_ExitReleasesThenNotifies ==
    /\ ret.op = "onExit" =>
          /\ Released(ret.agentId)
          /\ Cardinality(ExitEvents) = IF mainWindow THEN 1 ELSE 0
          /\ \A i \in ExitEvents :
                /\ i = Len(emitted)
                /\ emitted[i].agentId = ret.agentId
                /\ emitted[i].exitCode = ret.exitCode
                /\ proc[emitted[i].agentId] = "exited"
    /\ ret.op # "onExit" => ExitEvents = {}

\* the process of a session with batched output exits with code 1: the batch
\* and then the exit event are sent
C26_Witness ==
    /\ ret.op = "onExit"
    /\ ret.exitCode = 1
    /\ Len(emitted) = 2
    /\ emitted[1].type = "agent:update"
    /\ emitted[2] = [type |-> "agent:exit", agentId |-> ret.agentId, exitCode |-> 1]
    /\ Released(ret.agentId)

\* kill(id) has returned success: the process of id was killed (and may have
\* exited since)
Killed(id) == proc[id] = "killed" \/ (proc[id] = "exited" /\ ~Live(id))

\* C27: once kill(id) has returned success the session stays out of the
\* session table, and every resume(id) returns AGENT_NOT_FOUND, emits
\* nothing, and changes nothing in the Supervisor, the Batcher, the Watchdog,
\* the paused set or the side buffers.
C27_KillWinsOverResume ==
    [][\A id \in AgentIds :
         /\ proc[id] = "killed" => ~Live(id) /\ ~Live(id)'
         /\ (ret'.op = "resume" /\ ret'.agentId = id /\ Killed(id)) =>
               /\ ~ret'.success
               /\ ret'.error = "AGENT_NOT_FOUND"
               /\ emitted' = <<>>
               /\ sinkCalls' = <<>>
               /\ UNCHANGED <<mgrVars, monVars>>
               /\ ~MapHas(buffer', id)
               /\ ~MapHas(lastActivity', id)
               /\ id \notin DOMAIN agentStatuses'
               /\ id \notin DOMAIN pausedAgents'
               /\ id \notin DOMAIN pausedOutputBuffers']_vars

\* a resume refused for a session that was killed after it had printed, and
\* whose process has not exited yet
C27_Witness ==
    /\ ret.op = "resume"
    /\ ret.error = "AGENT_NOT_FOUND"
    /\ proc[ret.agentId] = "killed"
    /\ emittedChunks[ret.agentId] >= 1
    /\ mainWindow

\* the operations of the Supervisor that take the id of a session
IdOps == {"sendCommand", "pause", "resume", "kill", "resize"}

\* C28: sendCommand, pause, resume, kill and resize on an id that is not in
\* the session table return a failure result with an error (AGENT_NOT_FOUND
\* from pause and resume, the not-found text from the others), send no
\* event, write to no process and leave the session table and every tracker
\* as they were.
C28_UnknownIdRejected ==
    [][(ret'.op \in IdOps /\ ~Live(ret'.agentId)) =>
         /\ ~ret'.success
         /\ ret'.error = IF ret'.op \in {"pause", "resume"} THEN "AGENT_NOT_FOUND"
                         ELSE "not found"
         /\ emitted' = <<>>
         /\ written' = <<>>
         /\ sinkCalls' = <<>>
         /\ UNCHANGED <<mgrVars, monVars>>]_vars

\* a pause refused for an id that never had a session, while another session
\* is live, paused and has output held back
C28_Witness ==
    /\ ret.op = "pause"
    /\ ret.error = "AGENT_NOT_FOUND"
    /\ proc[ret.agentId] = "none"
    /\ \E id \in AgentIds : Live(id) /\ Paused(id) /\ SideBuffer(id) # <<>>

\* an id of 1 to 64 letters, digits and hyphens
WellFormedId(id) ==
    /\ IdShapes[id].string
    /\ IdShapes[id].length \in 1..64
    /\ IdShapes[id].chars \subseteq {"letter", "digit", "hyphen"}

\* at most 50 tags, each of 1 to 32 letters, digits and hyphens
WellFormedTags(tags) ==
    /\ tags.isArray
    /\ tags.length <= 50
    /\ \A tag \in tags.tags :
          /\ TagShapes[tag].string
          /\ TagShapes[tag].length \in 1..32
          /\ TagShapes[tag].chars \subseteq {"letter", "digit", "hyphen"}

\* the handlers that take an id, and those that take tags
IpcIdOps == {"ipc.sendCommand", "ipc.kill", "ipc.pause", "ipc.resume", "ipc.resize",
             "ipc.setTags", "ipc.getTags"}

IpcTagOps == {"ipc.setTags", "ipc.broadcast"}

\* C29: a request to sendCommand, kill, pause, resume, resize, setTags or
\* getTags whose id is not 1 to 64 letters, digits and hyphens, and a request
\* to setTags or broadcast whose tags are not at most 50 strings of 1 to 32
\* such characters, gets a failure result, reaches no operation of the
\* Supervisor and changes nothing in the Supervisor or its trackers.
C29_InvalidRequestRejected ==
    [][(\/ ret'.op \in IpcIdOps /\ ~WellFormedId(ret'.agentId)
        \/ ret'.op \in IpcTagOps /\ ~WellFormedTags(ret'.tags)) =>
          /\ ~ret'.success
          /\ ~ret'.reached
          /\ written' = <<>>
          /\ UNCHANGED <<mgrVars, monVars>>]_vars

\* C30: after a readable, well-formed file is loaded, the registered parsers
\* are exactly the CLI types of the file, each with exactly the patterns of
\* the file that compile: a line that matches only a pattern that failed to
\* compile is not classified, a line that matches another pattern of the same
\* CLI type is classified by it, and no default parser is registered.
C30_BadPatternDropped ==
    [][(ret'.op = "reload" /\ ret'.file # <<>> /\ ret'.file[1].json) =>
          LET raw == ret'.file[1].parsers
          IN  /\ DOMAIN parsers' = DOMAIN raw
              /\ \A t \in DOMAIN raw : \A k \in PatternType :
                    /\ k \in parsers'[t] <=> (k \in DOMAIN raw[t] /\ raw[t][k] = "regex")
                    /\ ConfigLoader_detectState(parsers', stateMapping', t, {k})
                         = IF k \in DOMAIN raw[t] /\ raw[t][k] = "regex"
                           THEN stateMapping'[k] ELSE Undefined]_vars

\* a file with a bad thinking pattern for claude has been loaded, and a line
\* with both the thinking and the error indicator was classified by the error
\* pattern that remained
C30_Witness ==
    /\ ret.op = "detectState" /\ ret.agentType = "claude"
    /\ ret.output = {"thinking", "error"} /\ ret.result = "ERROR"
    /\ DOMAIN parsers = {"claude", "mytool"}
    /\ parsers["claude"] = {"error", "waiting"}
    /\ parsers["mytool"] = {"error", "tool_use"}

\* C31: a watchdog scan leaves every recorded status and every last-activity
\* timestamp as they were, and for every stall callback it makes the
\* Supervisor sends one status-change notification with status STALLED for
\* that id to the attached window, in the order of the callbacks, and
\* nothing else.
C31_ScanOnlyReports ==
    [][ret'.op = "checkHealth" =>
          /\ UNCHANGED <<lastActivity, agentStatuses>>
          /\ emitted' = IF mainWindow
                        THEN [i \in 1..Len(stallCalls') |->
                                [type |-> "agent:status-change",
                                 agentId |-> stallCalls'[i].agentId, status |-> "STALLED"]]
                        ELSE <<>>]_vars

\* a scan that found a stalled session and notified the window
C31_Witness ==
    /\ ret.op = "checkHealth"
    /\ stallCalls # <<>>
    /\ emitted = <<[type |-> "agent:status-change", agentId |-> stallCalls[1].agentId,
                    status |-> "STALLED"]>>
    /\ Stalled(stallCalls[1].agentId)

\* the entries of type `type` in the log of id kept by the store
LogEntries(st, id, type) ==
    {i \in 1..Len(st[id].logs) : st[id].logs[i].type = type}

TrackedOutsideRegistry ==
    MapKeySet(buffer) \cup MapKeySet(lastActivity) \cup DOMAIN agentStatuses
       \cup DOMAIN pausedAgents \cup DOMAIN pausedOutputBuffers

\* C33: every id with an entry in the Batcher buffer, the Watchdog tables,
\* the tag registry, the paused set or the pause side buffer is the id of a
\* session in the Supervisor's session table.
C33_TrackersOnlyForSessions ==
    \A id \in TrackedOutsideRegistry \cup DOMAIN agentTags : Live(id)

\* C34: once kill(id) has succeeded or the process of id has exited, no step
\* hands the sink a batch for id, and no step, the arrival of late output
\* included, leaves id with an entry in the Batcher buffer, the Watchdog
\* tables, the paused set or the side buffer.
C34_NoOutputAfterTermination ==
    [][\A id \in AgentIds :
          proc[id] \in {"killed", "exited"} =>
             /\ SinkCallsFor(id)' = {}
             /\ \A i \in 1..Len(emitted') :
                   ~(emitted'[i].type = "agent:update" /\ emitted'[i].agentId = id)
             /\ id \notin TrackedOutsideRegistry']_vars

\* output arrived from a process that had been killed while chunks of it
\* were still waiting in the Batcher
C34_Witness ==
    /\ ret.op = "onData"
    /\ proc[ret.agentId] = "killed"
    /\ Len(delivered[ret.agentId]) + 2 <= emittedChunks[ret.agentId]

\* the ids with an entry in any tracker of the Supervisor
Tracked ==
    TrackedOutsideRegistry \cup DOMAIN agentTags \cup agentMetadata \cup trackedPids

\* C35: a kill that fails, the one whose process termination throws
\* included, modifies no table and no tracker; and in no state is a session
\* that has left the session table still held by some tracker.
C35_KillAllOrNothing ==
    [][/\ (ret'.op = "kill" /\ ~ret'.success) => UNCHANGED <<mgrVars, monVars>>
       /\ \A id \in AgentIds : (proc'[id] # "none" /\ ~Live(id)') => id \notin Tracked']_vars

\* C36: no chunk is handed to the sink twice (what the sink has received for
\* an id is strictly increasing in the chunk numbers, and no chunk still in
\* the buffer has been received), and flushAgent(id) invokes the sink for id
\* only and leaves the buffer entries of the other ids as they were.
C36_DeliveredAtMostOnce ==
    [][/\ \A id \in AgentIds :
             /\ \A i, j \in 1..Len(delivered'[id]) :
                   i < j => delivered'[id][i].n < delivered'[id][j].n
             /\ \A i \in 1..Len(delivered'[id]), k \in 1..Len(Batched(id)') :
                   delivered'[id][i].n # Batched(id)'[k].n
       /\ ret'.op = "flushAgent" =>
             /\ \A i \in 1..Len(sinkCalls') : sinkCalls'[i].agentId = ret'.agentId
             /\ \A other \in AgentIds \ {ret'.agentId} :
                   /\ MapHas(buffer', other) <=> MapHas(buffer, other)
                   /\ MapHas(buffer, other) => MapGet(buffer', other) = MapGet(buffer, other)]_vars

\* stop's final flush hands over the one chunk of a session that was left
\* after flushAgent had delivered the earlier one, while another session
\* had chunks too
C36_Witness ==
    /\ ret.op = "stop"
    /\ \E id \in AgentIds :
          /\ \E i \in 1..Len(sinkCalls) :
                sinkCalls[i].agentId = id /\ Numbers(sinkCalls[i].data) = <<2>>
          /\ Numbers(delivered[id]) = <<1, 2>>
          /\ \E other \in AgentIds \ {id} : delivered[other] # <<>>

\* C37: when the process of a session exits, the chunks of the session still
\* held in the Batcher and those held in the pause side buffer are handed to
\* the sink in that step, in the order they were received, and the exit
\* notification comes after them.
C37_ExitDeliversEverything ==
    [][(ret'.op = "onExit" /\ Live(ret'.agentId)) =>
          /\ delivered'[ret'.agentId]
               = delivered[ret'.agentId] \o Batched(ret'.agentId) \o SideBuffer(ret'.agentId)
          /\ \A i \in 1..Len(emitted') :
                emitted'[i].type = "agent:exit" => i = Len(emitted')]_vars

\* C38: no stall callback and no STALLED notification is for a session that
\* is paused; a resume of a paused session leaves its last-activity
\* timestamp at the time of the resume, no step moves a timestamp back, and
\* a stall callback is raised only when more than the stall timeout has
\* passed since that timestamp: so none is raised until the timeout has
\* elapsed since the resume and since the last output after it.
C38_NoStallWhilePaused ==
    [][/\ \A i \in 1..Len(stallCalls') :
             /\ ~Paused(stallCalls'[i].agentId)
             /\ now - MapGet(lastActivity, stallCalls'[i].agentId) > stallTimeout
       /\ \A i \in 1..Len(emitted') :
             (emitted'[i].type = "agent:status-change" /\ emitted'[i].status = "STALLED")
                => ~Paused(emitted'[i].agentId)
       /\ (ret'.op = "resume" /\ ret'.success /\ Paused(ret'.agentId))
             => MapGet(lastActivity', ret'.agentId) = now
       /\ \A id \in AgentIds :
             (MapHas(lastActivity, id) /\ MapHas(lastActivity', id))
                => MapGet(lastActivity', id) >= MapGet(lastActivity, id)]_vars

\* a scan that passes over a paused session whose last activity is older
\* than the stall timeout, with output waiting in its side buffer
C38_Witness ==
    /\ ret.op = "checkHealth"
    /\ stallCalls = <<>>
    /\ \E id \in AgentIds :
          /\ Paused(id)
          /\ now - MapGet(lastActivity, id) > stallTimeout
          /\ SideBuffer(id) # <<>>
          /\ delivered[id] # <<>>

\* C39: whenever no store operation is awaiting the main process, the ids
\* of the store's session records, the records of failed spawns (kept under
\* the store's own fallback ids) aside, are exactly the ids in the
\* Supervisor's session table.
C39_StoreMatchesSessionTable ==
    calls = <<>> => DOMAIN agents \ LocalIds = MapKeySet(ptyProcesses)

\* C40: the status the store keeps for resume is the status the session held
\* at the moment it became PAUSED, also when output was classified while the
\* pauseAgent call was awaiting its reply; and a resumeAgent that succeeds
\* leaves the session with the kept status.
C40_ResumeKeepsStatusAtPause ==
    [][\A id \in DOMAIN agents \cap DOMAIN agents' :
          /\ (agents[id].status # "PAUSED" /\ agents'[id].status = "PAUSED")
                => /\ id \in DOMAIN pausedPreviousStatus'
                   /\ pausedPreviousStatus'[id] = agents[id].status
          /\ (/\ ret'.op = "store.resumeAgent" /\ ret'.error = "returned" /\ ret'.success
              /\ ret'.agentId = id /\ id \in DOMAIN pausedPreviousStatus)
                => agents'[id].status = pausedPreviousStatus[id]]_vars

====
